---- MODULE Spec2Model ----
(***************************************************************************)
(* Model of the Difference Engine agent (src/agent): the name sanitiser    *)
(* and path resolver, the atomic JSON writer, the repository scanner, the  *)
(* per-mesh lock table and the HTTP handlers of src/agent/server.py.       *)
(*                                                                         *)
(* Strings are sequences of tokens. A token is one character (" ", tab,    *)
(* "/", ".", "_", "-", "a") or a run of characters of [A-Za-z0-9._-] that  *)
(* the model never splits ("main", "correct.json", "untitled", ...).       *)
(* Paths are sequences of names, relative to the repository root.          *)
(***************************************************************************)
EXTENDS Integers, Sequences, FiniteSets, TLC

VARIABLES
    job,        \* the call being made (SpecSan, SpecUtil, SpecConfig, SpecIndex, SpecMig)
    result,     \* what the call returned or a reader read, NoResult before that
    awDir,      \* SpecAW: the directory of the target: name -> inode
    awInode,    \* SpecAW: inode -> [doc, state] (the bytes a file holds)
    awPc,       \* SpecAW: each writer's position in atomic_write_json
    awIno,      \* SpecAW: the inode mkstemp gave each writer's current call
    awFailedAt, \* SpecAW: the step of the current call that failed, or "none"
    awNext,     \* SpecAW: the next unused inode (calls begun so far + 1)
    awCommitted,\* SpecAW: the documents that have been at the target path
    rdPc,       \* SpecAW: each reader's position in read_json_if_exists
    rdFd,       \* SpecAW: the inode each reader has open
    rdRes,      \* SpecAW: what each reader's last call returned
    fs,         \* the repository tree under data_root: [dirs, files]
    clock,      \* datetime.utcnow(), in half-seconds
    resp,       \* Spec: the last request handled and its response
    th,         \* SpecConc: each worker thread's request, position and locals
    locks,      \* SpecConc: AgentState._locks, sanitised mesh name -> Lock
    held        \* SpecConc: the Lock objects that are locked

sanVars == <<job, result>>
srvVars == <<fs, clock, resp>>
awVars == <<awDir, awInode, awPc, awIno, awFailedAt, awNext, awCommitted,
            rdPc, rdFd, rdRes>>
lockVars == <<th, locks, held>>
vars == <<sanVars, awVars, srvVars, lockVars>>

(***************************************************************************)
(* Bounds.                                                                 *)
(***************************************************************************)
MaxLen == 4          \* longest input string given to sanitize_name
MaxCalls == 3        \* SpecAW: calls of atomic_write_json in one run
MaxClock == 3        \* half-seconds the clock can show
MaxDirs == 3         \* directories the repository has room for

(***************************************************************************)
(* src/agent/fs.py: sanitize_name                                          *)
(***************************************************************************)
\* Tokens matched by [A-Za-z0-9._-] (kept by SAFE_NAME_RE.sub).
SafeTokens ==
    {"a", ".", "_", "-", "M", "N", "main", "dev", "c1", "c2", "c3", "c4",
     "correct.json", "forest.json", "commit.json", "untitled",
     "bad", "evil", "name"}

\* Characters str.strip() removes at both ends.
Whitespace == {" ", "\t"}

\* The input alphabet of the sanitiser check: a safe letter, the dot, the
\* space, another whitespace character and a character outside the class.
Alphabet == {"a", ".", " ", "\t", "/"}

RECURSIVE LStrip(_)
LStrip(s) ==
    IF s # <<>> /\ Head(s) \in Whitespace THEN LStrip(Tail(s)) ELSE s

RECURSIVE RStrip(_)
RStrip(s) ==
    IF s # <<>> /\ s[Len(s)] \in Whitespace
    THEN RStrip(SubSeq(s, 1, Len(s) - 1))
    ELSE s

\* name.strip()
Strip(s) == RStrip(LStrip(s))

\* .replace(" ", "_"): every single space becomes one underscore.
ReplaceSpaces(s) == [i \in 1..Len(s) |-> IF s[i] = " " THEN "_" ELSE s[i]]

IsSafe(c) == c \in SafeTokens

\* SAFE_NAME_RE.sub("", name): every run of characters outside the class
\* is deleted; dots are in the class and stay.
SafeNameReSubNothing(s) == s
SafeNameReSub(s) == SelectSeq(s, IsSafe)

Untitled == <<"untitled">>

sanitize_name(name) ==
    LET n1 == ReplaceSpaces(Strip(name))
        n2 == SafeNameReSub(n1)
    IN  IF n2 = <<>> THEN Untitled ELSE n2

(***************************************************************************)
(* src/agent/fs.py: Paths. A path is the sequence of segments joined under *)
(* the root by os.path.join.                                               *)
(***************************************************************************)
Dot == <<".">>
DotDot == <<".", ".">>

mesh_dir(mesh) == <<sanitize_name(mesh)>>

branch_dir(mesh, branch) == Append(mesh_dir(mesh), sanitize_name(branch))

commit_dir(mesh, branch, commit_id) ==
    Append(branch_dir(mesh, branch), sanitize_name(commit_id))

CorrectJson == <<"correct.json">>
ForestJson == <<"forest.json">>

correct_path(mesh) == Append(mesh_dir(mesh), CorrectJson)

forest_path == <<ForestJson>>

\* Where the operating system takes a joined path lexically: "." stays in
\* place, ".." steps to the parent; Outside when it steps above the root.
Outside == <<<<"..", "outside">>>>

RECURSIVE Norm(_, _)
Norm(acc, p) ==
    IF acc = Outside \/ p = <<>> THEN acc
    ELSE IF Head(p) = Dot THEN Norm(acc, Tail(p))
    ELSE IF Head(p) = DotDot
         THEN IF acc = <<>> THEN Outside
              ELSE Norm(SubSeq(acc, 1, Len(acc) - 1), Tail(p))
    ELSE Norm(Append(acc, Head(p)), Tail(p))

Normalize(p) == Norm(<<>>, p)

\* No call has returned yet.
NoResult == [kind |-> "none"]

\* The repository after create_app: the root exists and is empty.
EmptyTree == [dirs |-> {}, files |-> << >>]
NoRequest == [op |-> "none", status |-> 0, clean |-> TRUE]

\* Variables of the server at rest, for the specifications that do not use
\* them.
SrvQuiet ==
    /\ fs = EmptyTree
    /\ clock = 1
    /\ resp = NoRequest

\* The worker threads of the server, and the lock state at rest.
Threads == {1, 2}
NoLock == <<>>
IdleThread == [pc |-> "idle"]
LockQuiet ==
    /\ th = [t \in Threads |-> IdleThread]
    /\ locks = << >>
    /\ held = {}

(***************************************************************************)
(* src/agent/fs.py: atomic_write_json and read_json_if_exists, on one      *)
(* target path. A directory maps names to inodes; an inode holds the       *)
(* document being written and how much of it has reached the file.         *)
(***************************************************************************)
\* Two concurrent callers of atomic_write_json.
Writers == {1, 2}
\* One reader: readers change nothing, so they do not affect each other.
Readers == {"reader"}

AwTarget == <<"target.json">>

\* tempfile.mkstemp(prefix=".tmp_", dir=dirname(path)): a name no other
\* live temp file has.
TmpNames == <<<<".tmp_1">>, <<".tmp_2">>, <<".tmp_3">>, <<".tmp_4">>>>
TmpPath(w) == TmpNames[w]

\* The file the writer opens and dumps into: the temp file, not the target.
DumpPathInPlace(w) == AwTarget
DumpPath(w) == TmpPath(w)

NoIno == -1

\* What a reader got: a document, None, or an exception.
RdPending == [kind |-> "pending"]
RdNone == [kind |-> "None"]
RdTorn == [kind |-> "JSONDecodeError"]
RdMissing == [kind |-> "FileNotFoundError"]
RdDoc(d) == [kind |-> "doc", doc |-> d]

\* Variables of SpecAW at rest, for the specifications that do not use them.
AwQuiet ==
    /\ awDir = << >>
    /\ awInode = << >>
    /\ awPc = [w \in Writers |-> "idle"]
    /\ awIno = [w \in Writers |-> NoIno]
    /\ awFailedAt = [w \in Writers |-> "none"]
    /\ awNext = 1
    /\ awCommitted = {}
    /\ rdPc = [r \in Readers |-> "exists"]
    /\ rdFd = [r \in Readers |-> NoIno]
    /\ rdRes = [r \in Readers |-> RdPending]

\* The target is absent, or holds a complete prior document (inode 0).
InitAW ==
    /\ job = [kind |-> "none"]
    /\ result = NoResult
    /\ \/ awDir = << >> /\ awInode = << >> /\ awCommitted = {}
       \/ /\ awDir = (AwTarget :> 0)
          /\ awInode = (0 :> [doc |-> 0, state |-> "full"])
          /\ awCommitted = {0}
    /\ awPc = [w \in Writers |-> "idle"]
    /\ awIno = [w \in Writers |-> NoIno]
    /\ awFailedAt = [w \in Writers |-> "none"]
    /\ awNext = 1
    /\ rdPc = [r \in Readers |-> "exists"]
    /\ rdFd = [r \in Readers |-> NoIno]
    /\ rdRes = [r \in Readers |-> RdPending]
    /\ SrvQuiet
    /\ LockQuiet

Remove(f, k) == [x \in DOMAIN f \ {k} |-> f[x]]

\* The file system frees an inode that has no name and no open descriptor.
\* A writer holds its temp file open from mkstemp to the end of the with
\* block; a reader holds the target open from open to the end of json.load.
OpenFds(pc, ino, rfd) ==
    {ino[w] : w \in {x \in DOMAIN pc : pc[x] \in {"dump", "flush", "fsync"}}}
        \cup {rfd[r] : r \in DOMAIN rfd}
Collect(inodes, dir, fds) ==
    [i \in DOMAIN inodes \cap ({dir[n] : n \in DOMAIN dir} \cup fds) |-> inodes[i]]

\* line 23-24: the call; os.makedirs of a directory that exists.
AwCall(w) ==
    /\ awPc[w] \in {"idle", "returned", "raised"}
    /\ awNext <= MaxCalls
    /\ awPc' = [awPc EXCEPT ![w] = "mkstemp"]
    /\ awFailedAt' = [awFailedAt EXCEPT ![w] = "none"]
    /\ awIno' = [awIno EXCEPT ![w] = NoIno]
    /\ UNCHANGED <<awDir, awInode, awNext, awCommitted, rdPc, rdFd, rdRes, sanVars, srvVars, lockVars>>

\* line 25: mkstemp creates an empty file, or fails before the try block.
AwMkstemp(w) ==
    /\ awPc[w] = "mkstemp"
    /\ \/ /\ awDir' = (DumpPath(w) :> awNext) @@ awDir
          /\ awInode' = (awNext :> [doc |-> awNext, state |-> "empty"]) @@ awInode
          /\ awIno' = [awIno EXCEPT ![w] = awNext]
          /\ awNext' = awNext + 1
          /\ awPc' = [awPc EXCEPT ![w] = "dump"]
          /\ UNCHANGED awFailedAt
       \/ /\ awFailedAt' = [awFailedAt EXCEPT ![w] = "mkstemp"]
          /\ awPc' = [awPc EXCEPT ![w] = "raised"]
          /\ UNCHANGED <<awDir, awInode, awIno, awNext>>
    /\ UNCHANGED <<awCommitted, rdPc, rdFd, rdRes, sanVars, srvVars, lockVars>>

\* line 28: json.dump writes through the buffer: part of the text is in the
\* file; or serialising fails and the with block closes the file.
AwDump(w) ==
    /\ awPc[w] = "dump"
    /\ \/ /\ awInode' = [awInode EXCEPT ![awIno[w]].state = "partial"]
          /\ awPc' = [awPc EXCEPT ![w] = "flush"]
          /\ UNCHANGED awFailedAt
       \/ /\ awFailedAt' = [awFailedAt EXCEPT ![w] = "dump"]
          /\ awPc' = [awPc EXCEPT ![w] = "finally"]
          /\ UNCHANGED awInode
    /\ UNCHANGED <<awDir, awIno, awNext, awCommitted, rdPc, rdFd, rdRes, sanVars, srvVars, lockVars>>

\* line 29: f.flush(): the whole text is in the file.
AwFlush(w) ==
    /\ awPc[w] = "flush"
    /\ \/ /\ awInode' = [awInode EXCEPT ![awIno[w]].state = "full"]
          /\ awPc' = [awPc EXCEPT ![w] = "fsync"]
          /\ UNCHANGED awFailedAt
       \/ /\ awFailedAt' = [awFailedAt EXCEPT ![w] = "flush"]
          /\ awPc' = [awPc EXCEPT ![w] = "finally"]
          /\ UNCHANGED awInode
    /\ UNCHANGED <<awDir, awIno, awNext, awCommitted, rdPc, rdFd, rdRes, sanVars, srvVars, lockVars>>

\* line 30: os.fsync, then the with block closes the file.
AwFsync(w) ==
    /\ awPc[w] = "fsync"
    /\ \/ /\ awPc' = [awPc EXCEPT ![w] = "replace"]
          /\ UNCHANGED awFailedAt
       \/ /\ awFailedAt' = [awFailedAt EXCEPT ![w] = "fsync"]
          /\ awPc' = [awPc EXCEPT ![w] = "finally"]
    /\ UNCHANGED <<awDir, awInode, awIno, awNext, awCommitted, rdPc, rdFd, rdRes, sanVars, srvVars, lockVars>>

\* line 31: os.replace(tmp_path, path): the target name now refers to the
\* temp file's inode and the temp name is gone, in one step; or it fails
\* and changes nothing.
AwReplace(w) ==
    /\ awPc[w] = "replace"
    /\ \/ /\ awDir' = IF DumpPath(w) = AwTarget THEN awDir
                      ELSE Remove((AwTarget :> awDir[DumpPath(w)]) @@ awDir, DumpPath(w))
          /\ awCommitted' = awCommitted \cup {awInode[awDir[DumpPath(w)]].doc}
          /\ UNCHANGED awFailedAt
       \/ /\ awFailedAt' = [awFailedAt EXCEPT ![w] = "replace"]
          /\ UNCHANGED <<awDir, awCommitted>>
    /\ awPc' = [awPc EXCEPT ![w] = "finally"]
    /\ awInode' = Collect(awInode, awDir', OpenFds(awPc', awIno, rdFd))
    /\ UNCHANGED <<awIno, awNext, rdPc, rdFd, rdRes, sanVars, srvVars, lockVars>>

\* The exception of the try block leaves the finally block as it came in.
AwOutcome(w) == IF awFailedAt[w] = "none" THEN "returned" ELSE "raised"

\* What the finally block leaves of the directory.
AwCleanupNone(w) == awDir
AwCleanup(w) ==
    IF DumpPath(w) \in DOMAIN awDir THEN Remove(awDir, DumpPath(w)) ELSE awDir

\* line 32-37: finally: unlink the temp file if it is still there, then
\* return, or re-raise what the try block raised.
AwFinally(w) ==
    /\ awPc[w] = "finally"
    /\ awDir' = AwCleanup(w)
    /\ awPc' = [awPc EXCEPT ![w] = AwOutcome(w)]
    /\ awInode' = Collect(awInode, awDir', OpenFds(awPc', awIno, rdFd))
    /\ UNCHANGED <<awIno, awFailedAt, awNext, awCommitted, rdPc, rdFd, rdRes, sanVars, srvVars, lockVars>>

\* line 41-42: os.path.exists(path); None when it does not.
RdExists(r) ==
    /\ rdPc[r] = "exists"
    /\ IF AwTarget \in DOMAIN awDir
       THEN /\ rdPc' = [rdPc EXCEPT ![r] = "open"]
            /\ UNCHANGED rdRes
       ELSE /\ rdPc' = [rdPc EXCEPT ![r] = "done"]
            /\ rdRes' = [rdRes EXCEPT ![r] = RdNone]
    /\ UNCHANGED <<awDir, awInode, awPc, awIno, awFailedAt, awNext, awCommitted, rdFd, sanVars, srvVars, lockVars>>

\* line 43: open(path): the reader holds the inode the name refers to now.
RdOpen(r) ==
    /\ rdPc[r] = "open"
    /\ IF AwTarget \in DOMAIN awDir
       THEN /\ rdFd' = [rdFd EXCEPT ![r] = awDir[AwTarget]]
            /\ rdPc' = [rdPc EXCEPT ![r] = "load"]
            /\ UNCHANGED rdRes
       ELSE /\ rdRes' = [rdRes EXCEPT ![r] = RdMissing]
            /\ rdPc' = [rdPc EXCEPT ![r] = "done"]
            /\ UNCHANGED rdFd
    /\ UNCHANGED <<awDir, awInode, awPc, awIno, awFailedAt, awNext, awCommitted, sanVars, srvVars, lockVars>>

\* line 44: json.load(f): the document, if the file holds all of its text.
RdLoad(r) ==
    /\ rdPc[r] = "load"
    /\ rdRes' = [rdRes EXCEPT ![r] =
                    IF awInode[rdFd[r]].state = "full"
                    THEN RdDoc(awInode[rdFd[r]].doc) ELSE RdTorn]
    /\ rdPc' = [rdPc EXCEPT ![r] = "done"]
    /\ rdFd' = [rdFd EXCEPT ![r] = NoIno]
    /\ awInode' = Collect(awInode, awDir, OpenFds(awPc, awIno, rdFd'))
    /\ UNCHANGED <<awDir, awPc, awIno, awFailedAt, awNext, awCommitted, sanVars, srvVars, lockVars>>

\* The reader calls again.
RdAgain(r) ==
    /\ rdPc[r] = "done"
    /\ rdPc' = [rdPc EXCEPT ![r] = "exists"]
    /\ rdRes' = [rdRes EXCEPT ![r] = RdPending]
    /\ UNCHANGED <<awDir, awInode, awPc, awIno, awFailedAt, awNext, awCommitted, rdFd, sanVars, srvVars, lockVars>>

NextAW ==
    \/ \E w \in Writers :
          \/ AwCall(w) \/ AwMkstemp(w) \/ AwDump(w) \/ AwFlush(w)
          \/ AwFsync(w) \/ AwReplace(w) \/ AwFinally(w)
    \/ \E r \in Readers : RdExists(r) \/ RdOpen(r) \/ RdLoad(r) \/ RdAgain(r)

SpecAW == InitAW /\ [][NextAW]_vars

\* What the target path holds: the bytes of its inode, or nothing.
TargetContent(dir, inodes) ==
    IF AwTarget \in DOMAIN dir THEN inodes[dir[AwTarget]] ELSE [state |-> "absent"]

\* C9: a reader of the target, interleaved in any way with concurrent
\* atomic_write_json calls to it, gets a complete document that was at the
\* path (the prior content or that of a completed write), or None when the
\* file was absent: never a partial or empty file.
C9_ReaderSeesCompleteDocument ==
    \A r \in Readers :
        rdPc[r] = "done" =>
            /\ rdRes[r] \notin {RdTorn, RdMissing, RdPending}
            /\ rdRes[r] # RdNone => rdRes[r].doc \in awCommitted

\* C9 witness: a read returned the document of a completed write while
\* another call has written part of its text.
C9_Witness ==
    \E r \in Readers, w \in Writers :
        /\ rdPc[r] = "done" /\ rdRes[r] # RdNone /\ rdRes[r].doc >= 1
        /\ awPc[w] = "flush"

Parent(p) == SubSeq(p, 1, Len(p) - 1)
Last(p) == p[Len(p)]
IsUnder(p, d) == Len(p) > Len(d) /\ SubSeq(p, 1, Len(d)) = d

Missing == <<<<"..", "missing">>>>

\* The directory entry a joined path names: each component but the last
\* must be an existing directory, "." stays, ".." steps to the parent.
RECURSIVE Walk(_, _, _)
Walk(dirs, acc, p) ==
    IF p = <<>> THEN acc
    ELSE IF Head(p) = Dot THEN Walk(dirs, acc, Tail(p))
    ELSE IF Head(p) = DotDot
         THEN IF acc = <<>> THEN Outside ELSE Walk(dirs, Parent(acc), Tail(p))
    ELSE LET n == Append(acc, Head(p))
         IN  IF Tail(p) = <<>> THEN n
             ELSE IF n \in dirs THEN Walk(dirs, n, Tail(p))
             ELSE Missing

Resolve(tree, p) == Walk(tree.dirs, <<>>, p)

\* os.path.isdir
IsDir(tree, p) ==
    LET r == Resolve(tree, p)
    IN  r \notin {Missing, Outside} /\ (r = <<>> \/ r \in tree.dirs)

\* os.path.exists
Exists(tree, p) ==
    LET r == Resolve(tree, p)
    IN  r \notin {Missing, Outside}
        /\ (r = <<>> \/ r \in tree.dirs \/ r \in DOMAIN tree.files)

Done(tree) == [fs |-> tree, ok |-> TRUE]
Failed(tree) == [fs |-> tree, ok |-> FALSE]

\* The one element of a singleton: {e(x) : x \in {v}} evaluates v once.
Only(S) == CHOOSE x \in S : TRUE

\* os.mkdir inside os.makedirs(exist_ok=True): an existing directory is
\* accepted, an existing file or a missing parent raises.
Mkdir(tree, p) ==
    Only({IF r \in {Missing, Outside} THEN Failed(tree)
          ELSE IF r = <<>> \/ r \in tree.dirs THEN Done(tree)
          ELSE IF r \in DOMAIN tree.files THEN Failed(tree)
          ELSE Done([tree EXCEPT !.dirs = @ \cup {r}])
          : r \in {Resolve(tree, p)}})

\* os.makedirs(p, exist_ok=True): the parents first, then the leaf.
RECURSIVE MakeDirs(_, _)
MakeDirs(tree, p) ==
    IF p = <<>> THEN Done(tree)
    ELSE IF Exists(tree, Parent(p)) THEN Mkdir(tree, p)
    ELSE Only({IF ~r1.ok THEN r1
               ELSE IF Last(p) = Dot THEN r1
               ELSE Mkdir(r1.fs, p)
               : r1 \in {MakeDirs(tree, Parent(p))}})

\* shutil.rmtree(p) of a directory: everything below it is removed, then
\* os.rmdir(p), which raises when p ends in "." or "..".
RmTree(tree, p) ==
    Only({LET emptied == [dirs |-> {d \in tree.dirs : ~IsUnder(d, r)},
                          files |-> [f \in {x \in DOMAIN tree.files : ~IsUnder(x, r)}
                                        |-> tree.files[f]]]
          IN  IF Last(p) \in {Dot, DotDot} \/ r = <<>> THEN Failed(emptied)
              ELSE Done([emptied EXCEPT !.dirs = @ \ {r}])
          : r \in {Resolve(tree, p)}})

\* The names of the subdirectories of p (os.listdir filtered by isdir);
\* none when p is not a directory.
SubDirs(tree, p) ==
    IF ~IsDir(tree, p) THEN {}
    ELSE {Last(d) : d \in {x \in tree.dirs : Parent(x) = Resolve(tree, p)}}

ensure_branch(tree, mesh, branch) == MakeDirs(tree, branch_dir(mesh, branch))

remove_branch(tree, mesh, branch) ==
    IF IsDir(tree, branch_dir(mesh, branch))
    THEN RmTree(tree, branch_dir(mesh, branch))
    ELSE Done(tree)

\* sorted(items): the list is determined by the set of names.
list_meshes(tree) == {n \in SubDirs(tree, <<>>) : n # ForestJson}

list_branches(tree, mesh) == SubDirs(tree, mesh_dir(mesh))

list_commits(tree, mesh, branch) == SubDirs(tree, branch_dir(mesh, branch))

\* read_json_if_exists: None, the document, or the exception of open() on
\* a directory.
NoDoc == [kind |-> "None"]
ReadError == [kind |-> "error"]
read_json_if_exists(tree, p) ==
    IF ~Exists(tree, p) THEN NoDoc
    ELSE IF Resolve(tree, p) \in DOMAIN tree.files
         THEN [kind |-> "doc", doc |-> tree.files[Resolve(tree, p)]]
         ELSE ReadError

\* None in a JSON document.
Null == <<>>

\* dict.get(key): None when the document has no such key.
Get(doc, key) == IF key \in DOMAIN doc THEN doc[key] ELSE Null

\* read_correct: the branch correct.json names under current_branch or,
\* failing that, correct_branch; None without the file.
read_correct(tree, mesh) ==
    Only({IF data = NoDoc THEN [ok |-> TRUE, val |-> Null]
          ELSE IF data = ReadError THEN [ok |-> FALSE, val |-> Null]
          ELSE [ok |-> TRUE,
                val |-> IF Get(data.doc, "current_branch") # Null
                        THEN Get(data.doc, "current_branch")
                        ELSE Get(data.doc, "correct_branch")]
          : data \in {read_json_if_exists(tree, correct_path(mesh))}})

\* build_forest: the scan of the tree (updated_at is left out: it is not
\* compared by anything). It raises when a read_correct raises.
build_forest(tree) ==
    Only({[ok |-> \A m \in ms : read_correct(tree, m).ok,
           doc |-> [meshes |->
                      [m \in ms |->
                          [correct_branch |-> read_correct(tree, m).val,
                           branches |-> [b \in list_branches(tree, m) |->
                                            list_commits(tree, m, b)]]]]]
          : ms \in {list_meshes(tree)}})

\* read_forest: forest.json, or an empty forest when there is none.
read_forest(tree) ==
    Only({IF data = NoDoc THEN [ok |-> TRUE, doc |-> [meshes |-> << >>]]
          ELSE IF data = ReadError THEN [ok |-> FALSE, doc |-> [meshes |-> << >>]]
          ELSE [ok |-> TRUE, doc |-> data.doc]
          : data \in {read_json_if_exists(tree, forest_path)}})

\* Where mkstemp(dir=dirname(p)) puts the temp file tmp.
TmpAt(tree, p, tmp) ==
    Only({IF dir \in {Missing, Outside} THEN Missing
          ELSE IF dir = <<>> THEN <<tmp>> ELSE Append(dir, tmp)
          : dir \in {Resolve(tree, Parent(p))}})

\* atomic_write_json up to the fsync: the parent directories are made, the
\* temp file tmp is created beside the target and holds the document.
AwBegin(tree, p, data, tmp) ==
    Only({IF ~r1.ok \/ ~IsDir(r1.fs, Parent(p)) THEN Failed(r1.fs)
          ELSE Done([r1.fs EXCEPT !.files = (TmpAt(r1.fs, p, tmp) :> data) @@ @])
          : r1 \in {MakeDirs(tree, Parent(p))}})

\* atomic_write_json from os.replace on: the temp file takes the target's
\* name unless the target is a directory or the temp file is gone; the
\* finally block unlinks the temp file if it is still there.
AwEnd(tree, p, tmp) ==
    Only({LET without == [f \in DOMAIN tree.files \ {at} |-> tree.files[f]]
          IN  IF /\ at \in DOMAIN tree.files
                 /\ to \notin {Missing, Outside} /\ to # <<>> /\ to \notin tree.dirs
              THEN Done([tree EXCEPT !.files = (to :> tree.files[at]) @@ without])
              ELSE Failed([tree EXCEPT !.files = without])
          : at \in {TmpAt(tree, p, tmp)}, to \in {Resolve(tree, p)}})

atomic_write_json(tree, p, data, tmp) ==
    Only({IF ~r1.ok THEN r1 ELSE AwEnd(r1.fs, p, tmp)
          : r1 \in {AwBegin(tree, p, data, tmp)}})

\* write_correct (updated_at is left out).
write_correct(tree, mesh, branch, tmp) ==
    atomic_write_json(tree, correct_path(mesh),
                      [current_branch |-> sanitize_name(branch)], tmp)

write_forest(tree, forest, tmp) ==
    atomic_write_json(tree, forest_path, forest, tmp)

\* The placeholder commit.json written at time now (data_version is left
\* out).
CommitJson == <<"commit.json">>
CommitDoc(mesh, branch, now) ==
    [datetime |-> now, branch |-> sanitize_name(branch),
     mesh_name |-> sanitize_name(mesh)]

\* ensure_commit_structure: the commit directory, and a placeholder
\* commit.json when there is none yet.
ensure_commit_structure(tree, mesh, branch, commit_id, now, tmp) ==
    Only({Only({IF ~r1.ok THEN r1
                ELSE IF Exists(r1.fs, Append(d, CommitJson)) THEN r1
                ELSE atomic_write_json(r1.fs, Append(d, CommitJson),
                                       CommitDoc(mesh, branch, now), tmp)
                : r1 \in {MakeDirs(tree, d)}})
          : d \in {commit_dir(mesh, branch, commit_id)}})

(***************************************************************************)
(* src/agent/server.py: the handlers of the write endpoints, each as the   *)
(* function from the tree before the request to the tree after it and the  *)
(* HTTP status of the response.                                            *)
(***************************************************************************)
Ok == 200
NotFound == 404
Conflict == 409
ServerError == 500

Reply(tree, status) == [fs |-> tree, status |-> status]

\* write_forest(paths, build_forest(paths)), the tail of four handlers.
PersistForest(tree, tmp) ==
    Only({IF ~f.ok THEN Reply(tree, ServerError)
          ELSE Only({Reply(w.fs, IF w.ok THEN Ok ELSE ServerError)
                     : w \in {write_forest(tree, f.doc, tmp)}})
          : f \in {build_forest(tree)}})

set_correct(tree, mesh, branch, tmp) ==
    Only({IF br_s \notin list_branches(tree, mesh_s) THEN Reply(tree, NotFound)
          ELSE Only({Reply(w.fs, IF w.ok THEN Ok ELSE ServerError)
                     : w \in {write_correct(tree, mesh_s, br_s, tmp)}})
          : mesh_s \in {sanitize_name(mesh)}, br_s \in {sanitize_name(branch)}})

create_branch(tree, mesh, branch, tmp) ==
    Only({IF ~e.ok THEN Reply(e.fs, ServerError) ELSE PersistForest(e.fs, tmp)
          : e \in {ensure_branch(tree, sanitize_name(mesh), sanitize_name(branch))}})

\* The branch delete_branch refuses: the one correct.json names.
RefusedBranchNone(tree, mesh_s) == [ok |-> TRUE, val |-> Null]
RefusedBranch(tree, mesh_s) == read_correct(tree, mesh_s)

delete_branch(tree, mesh, branch, tmp) ==
    Only({IF ~current.ok THEN Reply(tree, ServerError)
          ELSE IF current.val = br_s THEN Reply(tree, Conflict)
          ELSE Only({IF ~r.ok THEN Reply(r.fs, ServerError)
                     ELSE PersistForest(r.fs, tmp)
                     : r \in {remove_branch(tree, mesh_s, br_s)}})
          : mesh_s \in {sanitize_name(mesh)}, br_s \in {sanitize_name(branch)},
            current \in {RefusedBranch(tree, sanitize_name(mesh))}})

\* datetime.utcnow().strftime("%Y-%m-%d_%H-%M-%S"): one identifier a second,
\* the same for both halves of the second.
CommitIds == <<<<"c1">>, <<"c2">>, <<"c3">>, <<"c4">>>>
MintCommitId(now) == CommitIds[(now + 1) \div 2]

create_commit(tree, mesh, branch, now, tmp) ==
    Only({IF ~e.ok THEN Reply(e.fs, ServerError) ELSE PersistForest(e.fs, tmp)
          : e \in {ensure_commit_structure(tree, sanitize_name(mesh),
                                           sanitize_name(branch),
                                           MintCommitId(now), now, tmp)}})

delete_commit(tree, mesh, branch, commit_id, tmp) ==
    Only({IF ~r.ok THEN Reply(r.fs, ServerError) ELSE PersistForest(r.fs, tmp)
          : r \in {Only({IF IsDir(tree, d) THEN RmTree(tree, d) ELSE Done(tree)
                         : d \in {commit_dir(sanitize_name(mesh),
                                             sanitize_name(branch),
                                             sanitize_name(commit_id))}})}})

\* src/agent/schemas.py: validate_forest accepts an object with "meshes".
validate_forest(doc) == "meshes" \in DOMAIN doc

\* The forest rescan writes: the scan of the tree.
RescanForestStale(tree) == read_forest(tree)
RescanForest(tree) == build_forest(tree)

\* POST /rescan: no lock is taken; the mesh parameter only reaches the
\* response.
rescan(tree, tmp) ==
    Only({IF ~f.ok THEN Reply(tree, ServerError)
          ELSE IF ~validate_forest(f.doc) THEN Reply(tree, ServerError)
          ELSE Only({Reply(w.fs, IF w.ok THEN Ok ELSE ServerError)
                     : w \in {write_forest(tree, f.doc, tmp)}})
          : f \in {RescanForest(tree)}})

\* The names in the body of each endpoint's successful response.
EchoRescan(mesh) == IF mesh # Null THEN [mesh |-> mesh] ELSE << >>
EchoGetCommits(mesh, branch) ==
    [mesh |-> sanitize_name(mesh), branch |-> sanitize_name(branch)]
EchoSetCorrect(mesh, branch) ==
    [mesh |-> sanitize_name(mesh), correct_branch |-> sanitize_name(branch)]
EchoCreateBranch(mesh, branch) ==
    [mesh |-> sanitize_name(mesh), branch |-> sanitize_name(branch)]
EchoDeleteBranch(mesh, branch) ==
    [mesh |-> sanitize_name(mesh), branch |-> sanitize_name(branch)]
EchoCreateCommit(mesh, branch) ==
    [mesh |-> sanitize_name(mesh), branch |-> sanitize_name(branch)]
EchoDeleteCommit(mesh, branch, commit_id) ==
    [mesh |-> sanitize_name(mesh), branch |-> sanitize_name(branch),
     commit_id |-> sanitize_name(commit_id)]

(***************************************************************************)
(* Spec: requests handled one at a time (each action is one whole handler) *)
(* with names that include ".", ".." and the reserved file names.          *)
(***************************************************************************)
MeshInputs == {<<"M">>}
BranchInputs == {<<"main">>, <<".">>, <<"correct.json">>}
CommitInputs == {<<"c1">>, <<"main">>}
\* The optional mesh query parameter of POST /rescan: absent, plain, and
\* with a leading space.
RescanInputs == {Null, <<"M">>, <<" ", "M">>}

\* The paths of a request stay inside the repository: what lies above the
\* root is not part of the state.
InRepo(p) == \A i \in 1..Len(p) : Normalize(SubSeq(p, 1, i)) # Outside

\* create_app: the root directory exists and is empty.
Init ==
    /\ job = [kind |-> "none"]
    /\ result = NoResult
    /\ AwQuiet
    /\ LockQuiet
    /\ fs = EmptyTree
    /\ clock = 1
    /\ resp = NoRequest

\* The repository has room for the tree.
Fits(tree) == Cardinality(tree.dirs) <= MaxDirs

\* The endpoint that answered last, its HTTP status, and whether every
\* request so far was answered with 200.
Response(op, mesh, branch, commit, status) ==
    [op |-> op, status |-> status, clean |-> resp.clean /\ status = Ok]

SetCorrect(mesh, branch) ==
    \E r \in {set_correct(fs, mesh, branch, TmpNames[1])} :
        /\ Fits(r.fs)
        /\ fs' = r.fs
        /\ resp' = Response("set_correct", mesh, branch, Null, r.status)
        /\ UNCHANGED <<clock, sanVars, awVars, lockVars>>

CreateBranch(mesh, branch) ==
    \E r \in {create_branch(fs, mesh, branch, TmpNames[1])} :
        /\ Fits(r.fs)
        /\ fs' = r.fs
        /\ resp' = Response("create_branch", mesh, branch, Null, r.status)
        /\ UNCHANGED <<clock, sanVars, awVars, lockVars>>

DeleteBranch(mesh, branch) ==
    \E r \in {delete_branch(fs, mesh, branch, TmpNames[1])} :
        /\ Fits(r.fs)
        /\ fs' = r.fs
        /\ resp' = Response("delete_branch", mesh, branch, Null, r.status)
        /\ UNCHANGED <<clock, sanVars, awVars, lockVars>>

CreateCommit(mesh, branch) ==
    /\ InRepo(commit_dir(mesh, branch, MintCommitId(clock)))
    /\ \E r \in {create_commit(fs, mesh, branch, clock, TmpNames[1])} :
        /\ Fits(r.fs)
        /\ fs' = r.fs
        /\ resp' = Response("create_commit", mesh, branch, MintCommitId(clock),
                            r.status)
        /\ UNCHANGED <<clock, sanVars, awVars, lockVars>>

DeleteCommit(mesh, branch, commit_id) ==
    /\ InRepo(commit_dir(mesh, branch, commit_id))
    /\ \E r \in {delete_commit(fs, mesh, branch, commit_id, TmpNames[1])} :
        /\ Fits(r.fs)
        /\ fs' = r.fs
        /\ resp' = Response("delete_commit", mesh, branch,
                            sanitize_name(commit_id), r.status)
        /\ UNCHANGED <<clock, sanVars, awVars, lockVars>>

\* POST /rescan; it is not one of the five write endpoints.
Rescan(mesh) ==
    \E r \in {rescan(fs, TmpNames[1])} :
        /\ fs' = r.fs
        /\ resp' = [op |-> "rescan", status |-> r.status, clean |-> FALSE]
        /\ UNCHANGED <<clock, sanVars, awVars, lockVars>>

\* GET /mesh/{mesh}/branch/{branch}/commits: reads only.
GetCommits(mesh, branch) ==
    /\ resp' = [op |-> "get_commits", status |-> Ok, clean |-> resp.clean]
    /\ UNCHANGED <<fs, clock, sanVars, awVars, lockVars>>

\* Half a second passes.
Tick ==
    /\ clock < MaxClock
    /\ clock' = clock + 1
    /\ UNCHANGED <<fs, resp, sanVars, awVars, lockVars>>

Next ==
    \/ \E m \in MeshInputs, b \in BranchInputs :
          \/ SetCorrect(m, b)
          \/ CreateBranch(m, b)
          \/ DeleteBranch(m, b)
          \/ CreateCommit(m, b)
          \/ GetCommits(m, b)
    \/ \E m \in MeshInputs, b \in BranchInputs, c \in CommitInputs :
          DeleteCommit(m, b, c)
    \/ \E m \in RescanInputs : Rescan(m)
    \/ Tick

Spec == Init /\ [][Next]_vars

\* The branch correct.json of the mesh names, Null when the file is absent
\* or unreadable.
Pointer(tree, mesh) == read_correct(tree, sanitize_name(mesh)).val

\* forest.json holds the forest build_forest gives for the tree.
ForestCurrent(tree) ==
    /\ build_forest(tree).ok
    /\ read_json_if_exists(tree, forest_path) =
          [kind |-> "doc", doc |-> build_forest(tree).doc]

\* C3: after any sequence of successful write requests handled one at a
\* time, forest.json equals (updated_at aside) the forest build_forest gives
\* for the tree: meshes, branches, commit ids and correct_branch.
C3_ForestMatchesTree ==
    (resp.op # "none" /\ resp.clean) => ForestCurrent(fs)

\* C6: in every reachable state, the branch a mesh's correct.json names is
\* a subdirectory of the mesh.
C6_PointerNamesBranch ==
    \A m \in list_meshes(fs) :
        Pointer(fs, m) # Null => Pointer(fs, m) \in list_branches(fs, m)

\* The mesh state: the mesh directories, the branch directories of each and
\* what each correct.json holds.
MeshState(tree) ==
    [m \in SubDirs(tree, << >>) |->
        [branches |-> list_branches(tree, m),
         correct |-> read_json_if_exists(tree, correct_path(m))]]

\* C13: create commit and delete commit leave the mesh directories, the
\* branch directories of every mesh and every correct pointer as they were.
C13_CommitsKeepMeshState ==
    [][\A m \in MeshInputs, b \in BranchInputs :
          (CreateCommit(m, b) \/ \E c \in CommitInputs : DeleteCommit(m, b, c))
              => MeshState(fs') = MeshState(fs)]_vars

\* C14: create branch on a branch that exists answers 200 and leaves the
\* branches of the mesh, the commits of each branch and the correct pointer
\* as they were.
C14_CreateExistingBranchNoOp ==
    [][\A m \in MeshInputs, b \in BranchInputs :
          (/\ CreateBranch(m, b)
           /\ sanitize_name(b) \in list_branches(fs, sanitize_name(m)))
              => /\ resp'.status = Ok
                 /\ MeshState(fs') = MeshState(fs)
                 /\ \A br \in list_branches(fs, sanitize_name(m)) :
                        list_commits(fs', sanitize_name(m), br) =
                        list_commits(fs, sanitize_name(m), br)]_vars

\* C15: after create commit with (m, b) the commit directory lies in the
\* branch directory named sanitize(b) of the mesh directory named
\* sanitize(m), and its commit.json has that branch and that mesh_name.
C15_CommitJsonNamesItsPath ==
    [][\A m \in MeshInputs, b \in BranchInputs :
          (CreateCommit(m, b) /\ resp'.status = Ok)
              => /\ <<sanitize_name(m), sanitize_name(b), MintCommitId(clock)>>
                       \in fs'.dirs
                 /\ <<sanitize_name(m), sanitize_name(b), MintCommitId(clock),
                       CommitJson>> \in DOMAIN fs'.files
                 /\ fs'.files[<<sanitize_name(m), sanitize_name(b),
                                MintCommitId(clock), CommitJson>>].branch
                       = sanitize_name(b)
                 /\ fs'.files[<<sanitize_name(m), sanitize_name(b),
                                MintCommitId(clock), CommitJson>>].mesh_name
                       = sanitize_name(m)]_vars

\* The commit.json of the commit create commit would mint now on (m, b).
MintedCommitJson(tree, m, b) ==
    read_json_if_exists(tree, Append(commit_dir(m, b, MintCommitId(clock)),
                                     CommitJson))

\* C16: when create commit on (m, b) mints the identifier of a commit an
\* earlier create commit on (m, b) made, the commit.json of that commit is
\* afterwards the document of the later request.
C16_SecondCommitOverwrites ==
    [][\A m \in MeshInputs, b \in BranchInputs :
          (/\ CreateCommit(m, b) /\ resp'.status = Ok
           /\ MintedCommitJson(fs, m, b).kind = "doc"
           /\ MintedCommitJson(fs, m, b).doc.branch = sanitize_name(b)
           /\ MintedCommitJson(fs, m, b).doc.mesh_name = sanitize_name(m))
              => /\ MintCommitId(clock) \in list_commits(fs', m, b)
                 /\ MintedCommitJson(fs', m, b) =
                       [kind |-> "doc", doc |-> CommitDoc(m, b, clock)]]_vars

\* C20: every endpoint that takes a name echoes its sanitised form in the
\* response, POST /rescan with its mesh parameter included.
C20_ResponsesEchoSanitised ==
    [][/\ \A m \in RescanInputs :
             (Rescan(m) /\ resp'.status = Ok /\ "mesh" \in DOMAIN EchoRescan(m))
                 => EchoRescan(m).mesh = sanitize_name(m)
       /\ \A m \in MeshInputs, b \in BranchInputs :
             /\ GetCommits(m, b) =>
                   /\ EchoGetCommits(m, b).mesh = sanitize_name(m)
                   /\ EchoGetCommits(m, b).branch = sanitize_name(b)
             /\ SetCorrect(m, b) =>
                   /\ EchoSetCorrect(m, b).mesh = sanitize_name(m)
                   /\ EchoSetCorrect(m, b).correct_branch = sanitize_name(b)
             /\ CreateBranch(m, b) =>
                   /\ EchoCreateBranch(m, b).mesh = sanitize_name(m)
                   /\ EchoCreateBranch(m, b).branch = sanitize_name(b)
             /\ DeleteBranch(m, b) =>
                   /\ EchoDeleteBranch(m, b).mesh = sanitize_name(m)
                   /\ EchoDeleteBranch(m, b).branch = sanitize_name(b)
             /\ CreateCommit(m, b) =>
                   /\ EchoCreateCommit(m, b).mesh = sanitize_name(m)
                   /\ EchoCreateCommit(m, b).branch = sanitize_name(b)
             /\ \A c \in CommitInputs : DeleteCommit(m, b, c) =>
                   /\ EchoDeleteCommit(m, b, c).mesh = sanitize_name(m)
                   /\ EchoDeleteCommit(m, b, c).branch = sanitize_name(b)
                   /\ EchoDeleteCommit(m, b, c).commit_id = sanitize_name(c)]_vars

\* C8: set correct answers 404 and leaves correct.json as it was when the
\* sanitised branch is not a subdirectory of the mesh, and otherwise
\* leaves correct.json naming the sanitised branch.
C8_SetCorrectIffBranchExists ==
    [][\A m \in MeshInputs, b \in BranchInputs :
          SetCorrect(m, b) =>
              IF sanitize_name(b) \in list_branches(fs, sanitize_name(m))
              THEN Pointer(fs', m) = sanitize_name(b)
              ELSE /\ resp'.status = NotFound
                   /\ read_json_if_exists(fs', correct_path(sanitize_name(m))) =
                        read_json_if_exists(fs, correct_path(sanitize_name(m)))]_vars


(***************************************************************************)
(* SpecScan: the tree changes behind the server's back (directories made   *)
(* and removed, documents written and deleted by hand) and POST /rescan    *)
(* is called in between.                                                   *)
(***************************************************************************)
ScanDirs ==
    {<<<<"M">>>>, <<<<"M">>, <<"main">>>>, <<<<"M">>, <<"main">>, <<"c1">>>>,
     <<<<"N">>>>, <<ForestJson>>}

\* Documents put in place by hand: an empty forest, a pointer, and a pointer
\* under the older key.
ScanFiles ==
    {[path |-> forest_path, doc |-> [meshes |-> << >>]],
     [path |-> correct_path(<<"M">>), doc |-> [current_branch |-> <<"main">>]],
     [path |-> correct_path(<<"M">>), doc |-> [correct_branch |-> <<"dev">>]]}

OutOfBand == [op |-> "out_of_band", status |-> 0, clean |-> FALSE]

OutOfBandMkdir(p) ==
    /\ \E r \in {MakeDirs(fs, p)} : r.ok /\ fs' = r.fs
    /\ resp' = OutOfBand
    /\ UNCHANGED <<clock, sanVars, awVars, lockVars>>

OutOfBandRmTree(p) ==
    /\ IsDir(fs, p)
    /\ fs' = RmTree(fs, p).fs
    /\ resp' = OutOfBand
    /\ UNCHANGED <<clock, sanVars, awVars, lockVars>>

OutOfBandWrite(f) ==
    /\ IsDir(fs, Parent(f.path))
    /\ f.path \notin fs.dirs
    /\ fs' = [fs EXCEPT !.files = (f.path :> f.doc) @@ @]
    /\ resp' = OutOfBand
    /\ UNCHANGED <<clock, sanVars, awVars, lockVars>>

OutOfBandUnlink(f) ==
    /\ f.path \in DOMAIN fs.files
    /\ fs' = [fs EXCEPT !.files = [x \in DOMAIN @ \ {f.path} |-> @[x]]]
    /\ resp' = OutOfBand
    /\ UNCHANGED <<clock, sanVars, awVars, lockVars>>

NextScan ==
    \/ \E p \in ScanDirs : OutOfBandMkdir(p) \/ OutOfBandRmTree(p)
    \/ \E f \in ScanFiles : OutOfBandWrite(f) \/ OutOfBandUnlink(f)
    \/ \E m \in RescanInputs : Rescan(m)

SpecScan == Init /\ [][NextScan]_vars

\* The names of the directories of the tree directly under path p.
DirsUnder(tree, p) ==
    {d[Len(p) + 1] : d \in {x \in tree.dirs : Len(x) = Len(p) + 1
                                              /\ SubSeq(x, 1, Len(p)) = p}}

\* What the correct.json of the mesh names in the tree.
PointerOnDisk(tree, mesh) ==
    IF <<mesh, CorrectJson>> \notin DOMAIN tree.files THEN Null
    ELSE IF Get(tree.files[<<mesh, CorrectJson>>], "current_branch") # Null
         THEN tree.files[<<mesh, CorrectJson>>].current_branch
         ELSE Get(tree.files[<<mesh, CorrectJson>>], "correct_branch")

\* forest.json lists the tree: the directories under the root as meshes,
\* their subdirectories as branches, theirs as commits, and the pointers.
ForestListsTree(tree) ==
    /\ forest_path \in DOMAIN tree.files
    /\ DOMAIN tree.files[forest_path].meshes = DirsUnder(tree, << >>)
    /\ ForestJson \notin DOMAIN tree.files[forest_path].meshes
    /\ \A m \in DirsUnder(tree, << >>) :
          /\ tree.files[forest_path].meshes[m].correct_branch
                = PointerOnDisk(tree, m)
          /\ DOMAIN tree.files[forest_path].meshes[m].branches
                = DirsUnder(tree, <<m>>)
          /\ \A b \in DirsUnder(tree, <<m>>) :
                tree.files[forest_path].meshes[m].branches[b]
                    = DirsUnder(tree, <<m, b>>)

ConcMeshes == {<<"M">>, <<"N">>}
ConcBranches == {<<"main">>, <<"dev">>}
\* The mesh and branch a request names: two branches of M, one of N.
ConcTargets ==
    {x \in ConcMeshes \X ConcBranches : x # <<<<"N">>, <<"dev">>>>}
ConcOps == {"set_correct", "create_branch", "delete_branch", "create_commit",
            "delete_commit"}

\* Trees the sequential handlers leave: the empty repository, one branch,
\* the branch made the correct one, and a commit on it.
Tree1 == create_branch(EmptyTree, <<"M">>, <<"main">>, TmpNames[1]).fs
Tree2 == set_correct(Tree1, <<"M">>, <<"main">>, TmpNames[1]).fs
Tree3 == create_commit(Tree2, <<"M">>, <<"main">>, 1, TmpNames[1]).fs
ConcTrees == {EmptyTree, Tree1, Tree2, Tree3}

\* A thread that has sanitised the names of its request and is about to
\* call get_mesh_lock. fresh: the mesh has no directory when the request
\* arrives.
Arrived(tree, op, mesh, branch) ==
    [pc |-> "lk_check", op |-> op, mesh |-> sanitize_name(mesh),
     branch |-> sanitize_name(branch), lock |-> NoLock, forest |-> Null,
     status |-> 0, persisted |-> FALSE,
     fresh |-> ~IsDir(tree, mesh_dir(sanitize_name(mesh)))]

InitConc ==
    /\ job = [kind |-> "none"]
    /\ result = NoResult
    /\ AwQuiet
    /\ clock = 1
    /\ resp = NoRequest
    /\ fs \in ConcTrees
    /\ th \in [Threads -> {Arrived(fs, op, x[1], x[2]) :
                              op \in ConcOps, x \in ConcTargets}]
    /\ locks = << >>
    /\ held = {}

\* The thread moves on; the other variables of SpecConc are named by each
\* step.
Goto(t, pc) == th' = [th EXCEPT ![t].pc = pc]

\* An exception or HTTPException leaves the with block: status is the
\* response the client will get.
RaiseHolding(t, status) ==
    th' = [th EXCEPT ![t].pc = "respond", ![t].status = status]
Raise(t, status) == th' = [th EXCEPT ![t].pc = "release", ![t].status = status]

\* get_mesh_lock, line by line: the test, the insertion of a new Lock, the
\* lookup that is returned. The Lock a thread creates is named after it.
GetLockCheck(t) ==
    /\ th[t].pc = "lk_check"
    /\ Goto(t, IF th[t].mesh \in DOMAIN locks THEN "lk_ret" ELSE "lk_set")
    /\ UNCHANGED <<locks, held, sanVars, awVars, srvVars>>

GetLockSet(t) ==
    /\ th[t].pc = "lk_set"
    /\ locks' = (th[t].mesh :> t) @@ locks
    /\ Goto(t, "lk_ret")
    /\ UNCHANGED <<held, sanVars, awVars, srvVars>>

GetLockReturn(t) ==
    /\ th[t].pc = "lk_ret"
    /\ th' = [th EXCEPT ![t].pc = "acquire", ![t].lock = locks[th[t].mesh]]
    /\ UNCHANGED <<locks, held, sanVars, awVars, srvVars>>

\* with lock: the thread waits until the Lock is free and takes it.
Acquire(t) ==
    /\ th[t].pc = "acquire"
    /\ th[t].lock \notin held
    /\ held' = held \cup {th[t].lock}
    /\ Goto(t, "body")
    /\ UNCHANGED <<locks, sanVars, awVars, srvVars>>

SetCorrectBody(t) ==
    /\ th[t].pc = "body" /\ th[t].op = "set_correct"
    /\ \E r \in {set_correct(fs, th[t].mesh, th[t].branch, TmpNames[t])} :
          /\ fs' = r.fs
          /\ Raise(t, r.status)
    /\ UNCHANGED <<clock, resp, locks, held, sanVars, awVars>>

CreateBranchBody(t) ==
    /\ th[t].pc = "body" /\ th[t].op = "create_branch"
    /\ \E e \in {ensure_branch(fs, th[t].mesh, th[t].branch)} :
          /\ fs' = e.fs
          /\ IF e.ok THEN Goto(t, "build") ELSE Raise(t, ServerError)
    /\ UNCHANGED <<clock, resp, locks, held, sanVars, awVars>>

\* delete_branch up to the test of the correct pointer.
DeleteBranchCheck(t) ==
    /\ th[t].pc = "body" /\ th[t].op = "delete_branch"
    /\ \E current \in {RefusedBranch(fs, th[t].mesh)} :
          IF ~current.ok THEN Raise(t, ServerError)
          ELSE IF current.val = th[t].branch THEN Raise(t, Conflict)
          ELSE Goto(t, "remove")
    /\ UNCHANGED <<locks, held, sanVars, awVars, srvVars>>

DeleteBranchRemove(t) ==
    /\ th[t].pc = "remove"
    /\ \E r \in {remove_branch(fs, th[t].mesh, th[t].branch)} :
          /\ fs' = r.fs
          /\ IF r.ok THEN Goto(t, "build") ELSE Raise(t, ServerError)
    /\ UNCHANGED <<clock, resp, locks, held, sanVars, awVars>>

CreateCommitBody(t) ==
    /\ th[t].pc = "body" /\ th[t].op = "create_commit"
    /\ \E e \in {ensure_commit_structure(fs, th[t].mesh, th[t].branch,
                                         MintCommitId(clock), clock,
                                         TmpNames[t])} :
          /\ fs' = e.fs
          /\ IF e.ok THEN Goto(t, "build") ELSE Raise(t, ServerError)
    /\ UNCHANGED <<clock, resp, locks, held, sanVars, awVars>>

\* delete_commit of the commit the first second mints.
DeleteCommitBody(t) ==
    /\ th[t].pc = "body" /\ th[t].op = "delete_commit"
    /\ \E d \in {commit_dir(th[t].mesh, th[t].branch, MintCommitId(1))} :
       \E r \in {IF IsDir(fs, d) THEN RmTree(fs, d) ELSE Done(fs)} :
          /\ fs' = r.fs
          /\ IF r.ok THEN Goto(t, "build") ELSE Raise(t, ServerError)
    /\ UNCHANGED <<clock, resp, locks, held, sanVars, awVars>>

\* build_forest(paths), the argument of write_forest.
BuildForest(t) ==
    /\ th[t].pc = "build"
    /\ \E f \in {build_forest(fs)} :
          IF f.ok THEN th' = [th EXCEPT ![t].pc = "wf_begin", ![t].forest = f.doc]
          ELSE Raise(t, ServerError)
    /\ UNCHANGED <<locks, held, sanVars, awVars, srvVars>>

\* write_forest up to the fsync of the temp file.
WriteForestBegin(t) ==
    /\ th[t].pc = "wf_begin"
    /\ \E w \in {AwBegin(fs, forest_path, th[t].forest, TmpNames[t])} :
          /\ fs' = w.fs
          /\ IF w.ok THEN Goto(t, "wf_end") ELSE Raise(t, ServerError)
    /\ UNCHANGED <<clock, resp, locks, held, sanVars, awVars>>

\* write_forest from os.replace on; the handler's with block ends after it.
WriteForestEnd(t) ==
    /\ th[t].pc = "wf_end"
    /\ \E w \in {AwEnd(fs, forest_path, TmpNames[t])} :
          /\ fs' = w.fs
          /\ th' = [th EXCEPT ![t].pc = "release", ![t].forest = Null,
                              ![t].status = IF w.ok THEN Ok ELSE ServerError,
                              ![t].persisted = w.ok /\ th[t].lock \in held]
    /\ UNCHANGED <<clock, resp, locks, held, sanVars, awVars>>

\* The with block is left, normally or by an exception.
Release(t) ==
    /\ th[t].pc = "release"
    /\ held' = held \ {th[t].lock}
    /\ Goto(t, "respond")
    /\ UNCHANGED <<locks, sanVars, awVars, srvVars>>

\* The return statement, or the handler of the exception, answers.
Respond(t) ==
    /\ th[t].pc = "respond"
    /\ Goto(t, "done")
    /\ UNCHANGED <<locks, held, sanVars, awVars, srvVars>>

NextConc ==
    \E t \in Threads :
        \/ GetLockCheck(t)
        \/ GetLockSet(t)
        \/ GetLockReturn(t)
        \/ Acquire(t)
        \/ SetCorrectBody(t)
        \/ CreateBranchBody(t)
        \/ DeleteBranchCheck(t)
        \/ DeleteBranchRemove(t)
        \/ CreateCommitBody(t)
        \/ DeleteCommitBody(t)
        \/ BuildForest(t)
        \/ WriteForestBegin(t)
        \/ WriteForestEnd(t)
        \/ Release(t)
        \/ Respond(t)

SpecConc == InitConc /\ [][NextConc]_vars

\* The thread is inside the with block of its handler.
InCriticalSection(t) ==
    th[t].pc \in {"body", "remove", "build", "wf_begin", "wf_end", "release"}

\* C1: two concurrent write requests to the same sanitised mesh name, also
\* when both are the first to name the mesh, are never inside their with
\* blocks at the same time.
C1_CriticalSectionsDisjoint ==
    \A t1 \in Threads, t2 \in Threads :
        (t1 # t2 /\ th[t1].mesh = th[t2].mesh)
            => ~(InCriticalSection(t1) /\ InCriticalSection(t2))

\* C11: once concurrent write requests to different meshes that rebuild the
\* forest have all been answered with success, forest.json equals the scan
\* of the tree.
C11_DifferentMeshesForestCurrent ==
    (/\ \A t \in Threads :
            /\ th[t].pc = "done" /\ th[t].status = Ok
            /\ th[t].op # "set_correct"
     /\ \A t1 \in Threads, t2 \in Threads : t1 # t2 => th[t1].mesh # th[t2].mesh)
    => ForestCurrent(fs)

\* C2: once a burst of create-branch requests with distinct branch names
\* for a mesh that had no directory has been answered, the mesh has exactly
\* those branch directories, forest.json lists all of them, and the root
\* holds no temp file.
C2_BurstKeepsAllBranches ==
    (/\ \A t \in Threads :
            th[t].op = "create_branch" /\ th[t].pc = "done" /\ th[t].fresh
     /\ \A t1 \in Threads, t2 \in Threads :
            t1 # t2 => (th[t1].mesh = th[t2].mesh /\ th[t1].branch # th[t2].branch))
    => \A t \in Threads :
          /\ list_branches(fs, th[t].mesh) = {th[u].branch : u \in Threads}
          /\ read_json_if_exists(fs, forest_path).kind = "doc"
          /\ DOMAIN read_json_if_exists(fs, forest_path).doc.meshes[th[t].mesh].branches
                = {th[u].branch : u \in Threads}
          /\ <<TmpNames[t]>> \notin DOMAIN fs.files

\* C4: a write endpoint that answers with success has rebuilt the forest
\* and written forest.json while it held the mesh mutex.
C4_SuccessAfterForestPersisted ==
    \A t \in Threads :
        (th[t].pc \in {"respond", "done"} /\ th[t].status = Ok) => th[t].persisted

\* C7: delete branch on the branch the correct pointer names is answered
\* 409 and changes nothing: the test raises with the tree (the branch, its
\* commits, correct.json, forest.json) as it was, and the next step of the
\* thread releases the mesh mutex, again without touching the tree.
C7_PointerBranchUndeletable ==
    [][\A t \in Threads :
          /\ (DeleteBranchCheck(t) /\ Pointer(fs, th[t].mesh) = th[t].branch)
                => (/\ th'[t].status = Conflict
                    /\ th'[t].pc = "release"
                    /\ fs' = fs)
          /\ (/\ th[t].op = "delete_branch" /\ th[t].status = Conflict
              /\ th[t].pc = "release" /\ th'[t] # th[t])
                => (/\ th'[t].pc = "respond"
                    /\ th[t].lock \notin held'
                    /\ fs' = fs)]_vars

C7_Witness ==
    \E t \in Threads :
        /\ th[t].op = "delete_branch" /\ th[t].pc = "done"
        /\ th[t].status = Conflict
        /\ th[t].lock \notin held
        /\ Pointer(fs, th[t].mesh) = th[t].branch
        /\ IsDir(fs, branch_dir(th[t].mesh, th[t].branch))


(***************************************************************************)
(* SpecSan: the pure functions applied to bounded inputs.                  *)
(***************************************************************************)
RECURSIVE StringsUpTo(_)
StringsUpTo(n) ==
    IF n = 0 THEN {<<>>}
    ELSE LET shorter == StringsUpTo(n - 1)
         IN  shorter \cup
             {Append(s, c) : s \in {x \in shorter : Len(x) = n - 1}, c \in Alphabet}

\* Raw names handed to the path resolver.
PathInputs ==
    {<<"a">>, <<".">>, <<".", ".">>, <<" ", ".", ".", "/">>,
     <<".", "/", ".">>, <<"/">>, <<"a", " ", "a">>}

SanJobs == [kind : {"sanitize"}, name : StringsUpTo(MaxLen)]

PathJobs ==
    [kind : {"paths"}, mesh : PathInputs, branch : PathInputs, commit : PathInputs]

\* Names with traversal prefixes, "../../bad" and "../evil name", and plain
\* ones, given to create branch on the empty repository.
TraversalMesh == <<".", ".", "/", ".", ".", "/", "bad">>
TraversalBranch == <<".", ".", "/", "evil", " ", "name">>
BranchJobs ==
    [kind : {"create_branch"}, mesh : {TraversalMesh, <<"M">>},
     branch : {TraversalBranch, <<"main">>}]

InitSan ==
    /\ job \in SanJobs \cup PathJobs \cup BranchJobs
    /\ result = NoResult
    /\ AwQuiet
    /\ SrvQuiet
    /\ LockQuiet

CallSanitize ==
    /\ job.kind = "sanitize"
    /\ result = NoResult
    /\ result' = [kind |-> "name", name |-> sanitize_name(job.name)]
    /\ UNCHANGED <<job, awVars, srvVars, lockVars>>

CallPaths ==
    /\ job.kind = "paths"
    /\ result = NoResult
    /\ result' = [kind |-> "paths",
                  mesh |-> mesh_dir(job.mesh),
                  branch |-> branch_dir(job.mesh, job.branch),
                  commit |-> commit_dir(job.mesh, job.branch, job.commit)]
    /\ UNCHANGED <<job, awVars, srvVars, lockVars>>

\* POST /mesh/{mesh}/branch on the empty repository: the directories it
\* leaves and its status.
CallCreateBranch ==
    /\ job.kind = "create_branch"
    /\ result = NoResult
    /\ \E r \in {create_branch(EmptyTree, job.mesh, job.branch, TmpNames[1])} :
          result' = [kind |-> "tree", dirs |-> r.fs.dirs, status |-> r.status]
    /\ UNCHANGED <<job, awVars, srvVars, lockVars>>

NextSan == CallSanitize \/ CallPaths \/ CallCreateBranch

SpecSan == InitSan /\ [][NextSan]_vars

\* C17: sanitize_name applied to its own result returns it unchanged, and
\* the result is never empty and holds only characters of [A-Za-z0-9._-].
C17_SanitizeIdempotent ==
    result.kind = "name" =>
        /\ sanitize_name(result.name) = result.name
        /\ result.name # <<>>
        /\ \A i \in 1..Len(result.name) : result.name[i] \in SafeTokens

C17_Witness ==
    /\ result.kind = "name"
    /\ \E i \in 1..Len(job.name), j \in 1..Len(job.name) :
          job.name[i] = "/" /\ job.name[j] = " "
    /\ result.name \notin {job.name, Untitled}

\* C18: a name made only of characters outside [A-Za-z0-9._-], spaces
\* among them, sanitises to "untitled".
C18_DisallowedOnlyIsUntitled ==
    (/\ result.kind = "name"
     /\ \A i \in 1..Len(job.name) : job.name[i] \notin SafeTokens)
        => result.name = Untitled

\* C19: create branch with mesh "../../bad" and branch "../evil name" makes
\* the directory bad/evil_name under the root, and nothing else.
C19_TraversalPrefixRemoved ==
    (/\ result.kind = "tree"
     /\ job.mesh = TraversalMesh /\ job.branch = TraversalBranch)
        => result.dirs = {<<<<"bad">>>>, <<<<"bad">>, <<"evil", "_", "name">>>>}

\* C5: for every input, sanitize_name never returns "." or "..", so every
\* path Paths builds has no "." or ".." segment and lies strictly under the
\* root at depth 1 (mesh), 2 (branch) or 3 (commit).
C5_NoDotSegments ==
    /\ result.kind = "name" => result.name \notin {Dot, DotDot}
    /\ result.kind = "paths" =>
          /\ \A p \in {result.mesh, result.branch, result.commit} :
                \A i \in 1..Len(p) : p[i] \notin {Dot, DotDot}
          /\ Normalize(result.mesh) # Outside /\ Len(Normalize(result.mesh)) = 1
          /\ Normalize(result.branch) # Outside /\ Len(Normalize(result.branch)) = 2
          /\ Normalize(result.commit) # Outside /\ Len(Normalize(result.commit)) = 3

(***************************************************************************)
(* SpecList: commits made on the branches of one mesh while the clock      *)
(* runs, and GET .../commits answering with the list list_commits returns. *)
(***************************************************************************)
\* The tokens in the order Python gives the strings they stand for (code
\* point order). No token is a prefix of another, so comparing two names
\* token by token compares their strings.
TokenOrder ==
    <<"-", ".", "M", "N", "_", "a", "bad", "c1", "c2", "c3", "c4",
      "commit.json", "correct.json", "dev", "evil", "forest.json", "main",
      "name", "untitled">>
TokenRank(c) == CHOOSE i \in 1..Len(TokenOrder) : TokenOrder[i] = c

\* a < b for str
RECURSIVE StrLess(_, _)
StrLess(a, b) ==
    IF b = <<>> THEN FALSE
    ELSE IF a = <<>> THEN TRUE
    ELSE IF Head(a) = Head(b) THEN StrLess(Tail(a), Tail(b))
    ELSE TokenRank(Head(a)) < TokenRank(Head(b))

\* sorted(out)
RECURSIVE Sorted(_)
Sorted(S) ==
    IF S = {} THEN <<>>
    ELSE Only({<<lo>> \o Sorted(S \ {lo})
               : lo \in {CHOOSE x \in S : \A y \in S \ {x} : StrLess(x, y)}})

\* sorted(out, reverse=True)
SortedReverseForward(S) == Sorted(S)
SortedReverse(S) ==
    Only({[i \in 1..Len(up) |-> up[Len(up) + 1 - i]] : up \in {Sorted(S)}})

\* The list list_commits returns: the names it collected, sorted downwards.
list_commits_sorted(tree, mesh, branch) ==
    SortedReverse(list_commits(tree, mesh, branch))

\* GET /mesh/{mesh}/branch/{branch}/commits
get_commits(tree, mesh, branch) ==
    [mesh |-> sanitize_name(mesh), branch |-> sanitize_name(branch),
     commits |-> list_commits_sorted(tree, sanitize_name(mesh),
                                     sanitize_name(branch))]

ListMeshes == {<<"M">>}
ListBranches == {<<"main">>, <<"dev">>}

\* POST /mesh/{mesh}/commit at the current clock reading.
ListCreateCommit(mesh, branch) ==
    \E r \in {create_commit(fs, mesh, branch, clock, TmpNames[1])} :
        /\ fs' = r.fs
        /\ resp' = [op |-> "create_commit", status |-> r.status,
                    branch |-> sanitize_name(branch),
                    commit |-> MintCommitId(clock)]
        /\ UNCHANGED <<clock, sanVars, awVars, lockVars>>

\* DELETE /mesh/{mesh}/branch/{branch}/commit/{commit_id}
ListDeleteCommit(mesh, branch, commit_id) ==
    \E r \in {delete_commit(fs, mesh, branch, commit_id, TmpNames[1])} :
        /\ fs' = r.fs
        /\ resp' = [op |-> "delete_commit", status |-> r.status,
                    branch |-> sanitize_name(branch), commit |-> commit_id]
        /\ UNCHANGED <<clock, sanVars, awVars, lockVars>>

ListGetCommits(mesh, branch) ==
    /\ resp' = [op |-> "get_commits", status |-> Ok,
                body |-> get_commits(fs, mesh, branch)]
    /\ UNCHANGED <<fs, clock, sanVars, awVars, lockVars>>

NextList ==
    \/ \E m \in ListMeshes, b \in ListBranches :
          \/ ListCreateCommit(m, b)
          \/ ListGetCommits(m, b)
          \/ \E i \in 1..Len(CommitIds) : ListDeleteCommit(m, b, CommitIds[i])
    \/ Tick

SpecList == Init /\ [][NextList]_vars

\* When create_commit made the commit: the datetime of its commit.json.
CreatedAt(tree, mesh, branch, commit_id) ==
    tree.files[Append(commit_dir(mesh, branch, commit_id), CommitJson)].datetime

\* C21: the list GET .../commits returns holds every commit of the branch
\* once, newest first: a commit made in a later second stands before every
\* commit made in an earlier one.
C21_CommitsNewestFirst ==
    [][\A m \in ListMeshes, b \in ListBranches :
          ListGetCommits(m, b) =>
              LET L == resp'.body.commits
              IN  /\ {L[i] : i \in 1..Len(L)} = list_commits(fs, m, b)
                  /\ Len(L) = Cardinality(list_commits(fs, m, b))
                  /\ \A i \in 1..Len(L), j \in 1..Len(L) :
                        i < j => CreatedAt(fs, m, b, L[i]) > CreatedAt(fs, m, b, L[j])]_vars

C21_Witness ==
    /\ resp.op = "get_commits"
    /\ Len(resp.body.commits) >= 2
    /\ resp.body.commits = list_commits_sorted(fs, resp.body.mesh, resp.body.branch)

\* The documents of the correct.json files of the tree, by path.
Pointers(tree) ==
    [f \in {x \in DOMAIN tree.files : Last(x) = CorrectJson} |-> tree.files[f]]

\* C22: delete commit for a commit directory that does not exist (its
\* branch or mesh may not exist either) answers 200 'deleted' and leaves
\* the directories and the correct.json files of the tree as they were.
C22_DeleteMissingCommitNoOp ==
    [][\A m \in MeshInputs, b \in BranchInputs, c \in CommitInputs :
          (DeleteCommit(m, b, c) /\ ~IsDir(fs, commit_dir(m, b, c)))
              => /\ resp'.status = Ok
                 /\ fs'.dirs = fs.dirs
                 /\ Pointers(fs') = Pointers(fs)]_vars

(***************************************************************************)
(* SpecFault: the handlers of SpecConc, step by step, where the second     *)
(* request may arrive at any moment (also after the first was answered)    *)
(* and a write of forest.json may fail with an I/O error.                  *)
(***************************************************************************)
\* A request that arrives when the requests of the threads in before have
\* been answered.
ArrivedAfter(tree, op, mesh, branch, before) ==
    [after |-> before] @@ Arrived(tree, op, mesh, branch)

InitFault ==
    /\ job = [kind |-> "none"]
    /\ result = NoResult
    /\ AwQuiet
    /\ clock = 1
    /\ resp = NoRequest
    /\ fs \in ConcTrees
    /\ th \in {[t \in Threads |-> IF t = 1 THEN a ELSE IdleThread] :
                  a \in {ArrivedAfter(fs, op, x[1], x[2], {}) :
                            op \in ConcOps, x \in ConcTargets}}
    /\ locks = << >>
    /\ held = {}

\* A worker thread takes a request.
Arrive(t) ==
    /\ th[t].pc = "idle"
    /\ \E op \in ConcOps, x \in ConcTargets :
          th' = [th EXCEPT ![t] =
                    ArrivedAfter(fs, op, x[1], x[2],
                                 {u \in Threads : th[u].pc = "done"})]
    /\ UNCHANGED <<locks, held, sanVars, awVars, srvVars>>

\* write_forest raises: mkstemp, json.dump, fsync or os.replace fails with
\* an OSError, the finally block removes the temp file, and the exception
\* leaves the handler's with block.
WriteForestFault(t) ==
    /\ th[t].pc = "wf_begin"
    /\ th' = [th EXCEPT ![t] = [io_error |-> TRUE] @@
                                 [@ EXCEPT !.pc = "release", !.forest = Null,
                                           !.status = ServerError]]
    /\ UNCHANGED <<locks, held, sanVars, awVars, srvVars>>

NextFault ==
    \/ NextConc
    \/ \E t \in Threads : Arrive(t) \/ WriteForestFault(t)

SpecFault == InitFault /\ [][NextFault]_vars

\* The thread's forest write failed after its mutation was made.
ForestWriteFailed(t) == "io_error" \in DOMAIN th[t]

\* C23: when the forest write fails after the mutation succeeded, the
\* request ends with a server error, the mutation stays on disk, the mesh
\* mutex is released, and the next mutating request that succeeds, on any
\* mesh, leaves forest.json equal to the scan of the tree (so it includes
\* the earlier mutation).
C23_NextSuccessReconcilesForest ==
    [][\A t \in Threads :
          /\ WriteForestFault(t) =>
                (/\ th'[t].status = ServerError /\ th'[t].pc = "release"
                 /\ fs' = fs)
          /\ (ForestWriteFailed(t) /\ Release(t)) =>
                (th[t].lock \notin held' /\ fs' = fs)
          /\ (ForestWriteFailed(t) /\ Respond(t)) =>
                (th'[t].status = ServerError /\ fs' = fs)
          /\ \A u \in Threads :
                (/\ Respond(u) /\ th[u].status = Ok
                 /\ ForestWriteFailed(t) /\ t \in th[u].after)
                    => ForestCurrent(fs')]_vars

(***************************************************************************)
(* SpecCancel: the handlers of SpecConc, where the client of a request     *)
(* that is waiting for the mesh Lock may go away. The handlers are plain   *)
(* functions blocked in threading.Lock.acquire: no statement of theirs     *)
(* looks at the connection, so the thread goes on as before.               *)
(***************************************************************************)
\* The transport cancels the request of a thread that waits at `with lock`.
Cancel(t) ==
    /\ th[t].pc = "acquire"
    /\ th[t].lock \in held
    /\ "cancelled" \notin DOMAIN th[t]
    /\ th' = [th EXCEPT ![t] = [cancelled |-> TRUE] @@ @]
    /\ UNCHANGED <<locks, held, sanVars, awVars, srvVars>>

NextCancel == NextConc \/ \E t \in Threads : Cancel(t)

SpecCancel == InitConc /\ [][NextCancel]_vars

\* The request was cancelled while its thread waited for the mesh Lock.
CancelledWaiting(t) == "cancelled" \in DOMAIN th[t]

\* C24: a mutating request cancelled while it waits for the mesh mutex
\* stops waiting with an error: it never enters its with block, changes
\* nothing in the tree and is not answered with success.
C24_CancelledWaiterHasNoEffect ==
    [][\A t \in Threads :
          (CancelledWaiting(t) /\ th'[t] # th[t])
              => (/\ ~InCriticalSection(t)'
                  /\ th'[t].status # Ok
                  /\ fs' = fs)]_vars

\* get_mesh_lock has returned to the thread's handler.
GotLock(t) == th[t].pc \notin {"idle", "lk_check", "lk_set", "lk_ret"}

\* C29: under every interleaving of concurrent first calls, all calls of
\* get_mesh_lock for one mesh return the same Lock object, and an entry of
\* the lock table, once stored, is never replaced or removed.
C29_OneLockPerMesh ==
    [][/\ \A m \in DOMAIN locks : m \in DOMAIN locks' /\ locks'[m] = locks[m]
       /\ \A t1 \in Threads, t2 \in Threads :
             (/\ th'[t1].mesh = th'[t2].mesh
              /\ GotLock(t1)' /\ GotLock(t2)')
                 => th'[t1].lock = th'[t2].lock]_vars

(***************************************************************************)
(* SpecRescan: one write handler of SpecConc on thread 1 and POST /rescan  *)
(* on thread 2, step by step. rescan calls build_forest and write_forest   *)
(* without get_mesh_lock.                                                  *)
(***************************************************************************)
\* The thread that runs rescan, about to call build_forest.
RescanArrived ==
    [pc |-> "rs_build", op |-> "rescan", forest |-> Null, status |-> 0]

InitRescan ==
    /\ job = [kind |-> "none"]
    /\ result = NoResult
    /\ AwQuiet
    /\ clock = 1
    /\ resp = NoRequest
    /\ fs \in ConcTrees
    /\ th \in {[t \in Threads |-> IF t = 1 THEN a ELSE RescanArrived] :
                  a \in {Arrived(fs, op, x[1], x[2]) :
                            op \in ConcOps, x \in ConcTargets}}
    /\ locks = << >>
    /\ held = {}

\* forest = build_forest(paths); validate_forest(forest)
RescanBuild(t) ==
    /\ th[t].pc = "rs_build"
    /\ \E f \in {RescanForest(fs)} :
          IF f.ok /\ validate_forest(f.doc)
          THEN th' = [th EXCEPT ![t].pc = "rs_begin", ![t].forest = f.doc]
          ELSE th' = [th EXCEPT ![t].pc = "respond", ![t].status = ServerError]
    /\ UNCHANGED <<locks, held, sanVars, awVars, srvVars>>

\* write_forest(paths, forest) up to the fsync of the temp file.
RescanWriteBegin(t) ==
    /\ th[t].pc = "rs_begin"
    /\ \E w \in {AwBegin(fs, forest_path, th[t].forest, TmpNames[t])} :
          /\ fs' = w.fs
          /\ IF w.ok THEN Goto(t, "rs_end")
             ELSE th' = [th EXCEPT ![t].pc = "respond", ![t].status = ServerError]
    /\ UNCHANGED <<clock, resp, locks, held, sanVars, awVars>>

\* write_forest from os.replace on, and the return of rescan.
RescanWriteEnd(t) ==
    /\ th[t].pc = "rs_end"
    /\ \E w \in {AwEnd(fs, forest_path, TmpNames[t])} :
          /\ fs' = w.fs
          /\ th' = [th EXCEPT ![t].pc = "respond", ![t].forest = Null,
                              ![t].status = IF w.ok THEN Ok ELSE ServerError]
    /\ UNCHANGED <<clock, resp, locks, held, sanVars, awVars>>

NextRescan ==
    \/ NextConc
    \/ \E t \in Threads : RescanBuild(t) \/ RescanWriteBegin(t) \/ RescanWriteEnd(t)

SpecRescan == InitRescan /\ [][NextRescan]_vars

\* forest.json as a reader finds it.
ForestOnDisk(tree) == read_json_if_exists(tree, forest_path)

\* C30: every write of forest.json is made by a handler that holds a mesh
\* mutex, and once a rescan and a concurrent mutating request have both
\* been answered with success, forest.json is not a forest built before
\* the request's mutation: it equals the scan of the tree.
C30_ForestWritesUnderMutex ==
    [][/\ \A t \in Threads :
             (th'[t] # th[t] /\ ForestOnDisk(fs') # ForestOnDisk(fs))
                 => (GotLock(t) /\ th[t].op # "rescan" /\ th[t].lock \in held)
       /\ (\A t \in Threads : th'[t].pc = "done" /\ th'[t].status = Ok
                                 /\ th'[t].op # "set_correct")
             => ForestCurrent(fs')]_vars

(***************************************************************************)
(* src/classes/utils.py: sanitize_path_component. In this part a token is  *)
(* one character, so Len is the length of the string.                      *)
(***************************************************************************)
ComponentLimit == 100
MaxTail == 2         \* characters after the run of letters of a long name

\* The class [/\\:*?"<>|] of the re.sub.
DangerousChars == {"/", "\\", ":", "*", "?", "\"", "<", ">", "|"}

\* re.sub(r'[/\\:*?"<>|]', '_', s)
ReplaceDangerous(s) ==
    [i \in 1..Len(s) |-> IF s[i] \in DangerousChars THEN "_" ELSE s[i]]

\* s.strip('. ')
RECURSIVE StripDotsSpaces(_)
StripDotsSpaces(s) ==
    IF s = <<>> THEN s
    ELSE IF Head(s) \in {".", " "} THEN StripDotsSpaces(Tail(s))
    ELSE IF s[Len(s)] \in {".", " "}
         THEN StripDotsSpaces(SubSeq(s, 1, Len(s) - 1))
    ELSE s

\* s[:100] when len(s) > 100
Truncate(s) ==
    IF Len(s) > ComponentLimit THEN SubSeq(s, 1, ComponentLimit) ELSE s

ValueError == [raised |-> TRUE, value |-> <<>>]
Returned(s) == [raised |-> FALSE, value |-> s]

\* None and "" are falsy; every other input goes through str().
sanitize_path_component(name) ==
    IF name = Null THEN ValueError
    ELSE Only({IF safe_name = <<>> THEN ValueError
               ELSE Returned(Truncate(safe_name))
               : safe_name \in {StripDotsSpaces(ReplaceDangerous(name))}})

(***************************************************************************)
(* SpecUtil: sanitize_path_component applied to short names, to names with *)
(* each dangerous character, and to names around the length limit.         *)
(***************************************************************************)
Letters(n) == [i \in 1..n |-> "a"]

ComponentInputs ==
    {Null}
    \cup {Letters(k) \o t : k \in {0} \cup ((ComponentLimit - 2)..ComponentLimit),
                            t \in StringsUpTo(MaxTail)}
    \cup {<<"a", c, ".", "a">> : c \in DangerousChars}

InitUtil ==
    /\ job \in [kind : {"sanitize_path_component"}, name : ComponentInputs]
    /\ result = NoResult
    /\ AwQuiet
    /\ SrvQuiet
    /\ LockQuiet

CallSanitizePathComponent ==
    /\ job.kind = "sanitize_path_component"
    /\ result = NoResult
    /\ result' = [kind |-> "component"] @@ sanitize_path_component(job.name)
    /\ UNCHANGED <<job, awVars, srvVars, lockVars>>

NextUtil == CallSanitizePathComponent

SpecUtil == InitUtil /\ [][NextUtil]_vars

\* C28: sanitize_path_component raises ValueError (for None, the empty
\* string, and a name of dots and spaces only) or returns a string of at
\* most 100 characters with none of / \ : * ? " < > |, each of them
\* replaced by "_", that neither starts nor ends with a dot or a space.
C28_ComponentIsSafe ==
    result.kind = "component" =>
        IF result.raised
        THEN job.name = Null
             \/ \A i \in 1..Len(job.name) : job.name[i] \in {".", " "}
        ELSE LET r == result.value
             IN  /\ Len(r) >= 1 /\ Len(r) <= ComponentLimit
                 /\ \A i \in 1..Len(r) : r[i] \notin DangerousChars
                 /\ \E k \in 0..Len(job.name) :
                       \A i \in 1..Len(r) :
                          r[i] = ReplaceDangerous(job.name)[k + i]
                 /\ r[1] \notin {".", " "}
                 /\ r[Len(r)] \notin {".", " "}

(***************************************************************************)
(* src/classes/config.py: DFM_Config.validate and                          *)
(* DFM_ConfigManager.update_config. A value is an int, a str or a tuple    *)
(* (of which only the length matters); a configuration is the record of    *)
(* the attributes validate reads, one it does not read, and the bound      *)
(* method validate itself, which setattr can shadow.                       *)
(***************************************************************************)
MaxKwargs == 2       \* keyword arguments in one call of update_config

IntValue(n) == [t |-> "int", v |-> n]
StrValue == [t |-> "str", v |-> 0]
TupleValue(n) == [t |-> "tuple", v |-> n]
BoundMethod == [t |-> "method", v |-> 0]

\* DFM_Config(): the defaults of the dataclass.
DefaultConfig ==
    [DEFAULT_CHUNK_SIZE |-> IntValue(1000),
     MAX_SEARCH_RESULTS |-> IntValue(20),
     MAX_UI_LIST_ROWS |-> IntValue(10),
     AUTO_COMPRESS_THRESHOLD |-> IntValue(10),
     MAX_FILE_SIZE_MB |-> IntValue(100),
     BACKUP_RETENTION_DAYS |-> IntValue(30),
     ALLOWED_FILE_EXTENSIONS |-> TupleValue(7),
     validate |-> BoundMethod]

\* The comparisons of validate, in order: attribute, and whether zero is
\* refused too (<= 0) or only negatives (< 0).
NumericChecks ==
    <<[key |-> "DEFAULT_CHUNK_SIZE", zero |-> TRUE],
      [key |-> "MAX_SEARCH_RESULTS", zero |-> TRUE],
      [key |-> "AUTO_COMPRESS_THRESHOLD", zero |-> FALSE],
      [key |-> "MAX_FILE_SIZE_MB", zero |-> TRUE],
      [key |-> "BACKUP_RETENTION_DAYS", zero |-> FALSE]>>

\* `not value`
Falsy(value) == value.t \in {"int", "tuple"} /\ value.v = 0

\* validate: "True", or the exception it raises. Comparing a str or a
\* tuple with 0 raises TypeError at once; the errors found are collected
\* and raised together as ValueError at the end.
RECURSIVE ValidateFrom(_, _, _)
ValidateFrom(cfg, i, errors) ==
    IF i > Len(NumericChecks)
    THEN IF errors + (IF Falsy(cfg.ALLOWED_FILE_EXTENSIONS) THEN 1 ELSE 0) > 0
         THEN "ValueError" ELSE "True"
    ELSE LET c == NumericChecks[i]
             x == cfg[c.key]
         IN  IF x.t # "int" THEN "TypeError"
             ELSE ValidateFrom(cfg, i + 1,
                      errors + (IF x.v < 0 \/ (c.zero /\ x.v = 0) THEN 1 ELSE 0))

\* self._config.validate(): the attribute must still be the method.
validate(cfg) ==
    IF cfg.validate # BoundMethod THEN "TypeError" ELSE ValidateFrom(cfg, 1, 0)

\* hasattr(self._config, key)
HasAttr(cfg, key) == key \in DOMAIN cfg

\* setattr(self._config, key, value)
SetAttrIgnored(cfg, key, value) == cfg
SetAttr(cfg, key, value) == [cfg EXCEPT ![key] = value]

\* The for loop of update_config over kwargs.items(); keys the
\* configuration does not have are logged and skipped.
RECURSIVE ApplyKwargs(_, _, _)
ApplyKwargs(cfg, kwargs, todo) ==
    IF todo = {} THEN cfg
    ELSE LET key == CHOOSE k \in todo : TRUE
         IN  ApplyKwargs(IF HasAttr(cfg, key) THEN SetAttr(cfg, key, kwargs[key])
                         ELSE cfg,
                         kwargs, todo \ {key})

\* Exceptions that are subclasses of Exception.
ExceptionClasses == {"ValueError", "TypeError"}

\* update_config: the loop, validate, and the two except clauses
\* (ValueError, then Exception), both returning False.
update_config(cfg, kwargs) ==
    Only({Only({[config |-> after,
                 raised |-> v # "True" /\ v # "ValueError"
                            /\ v \notin ExceptionClasses,
                 ret |-> v = "True"]
                : v \in {validate(after)}})
          : after \in {ApplyKwargs(cfg, kwargs, DOMAIN kwargs)}})

(***************************************************************************)
(* SpecConfig: update_config called once on a configuration earlier calls  *)
(* left (the defaults, or the defaults with one value replaced: a failed   *)
(* update is not rolled back).                                             *)
(***************************************************************************)
ConfigValues ==
    {IntValue(-1), IntValue(0), IntValue(1), IntValue(2000), StrValue,
     TupleValue(0), TupleValue(1)}

\* Keyword names: attributes validate reads, one it does not, the method
\* name, and a name the configuration does not have.
ConfigKeys ==
    {"DEFAULT_CHUNK_SIZE", "MAX_SEARCH_RESULTS", "AUTO_COMPRESS_THRESHOLD",
     "ALLOWED_FILE_EXTENSIONS", "MAX_UI_LIST_ROWS", "validate", "unknown_key"}

KwargsInputs ==
    UNION {[D -> ConfigValues] :
              D \in {S \in SUBSET ConfigKeys : Cardinality(S) <= MaxKwargs}}

ConfigInputs ==
    {DefaultConfig}
    \cup {SetAttr(DefaultConfig, k, x) :
             k \in {"DEFAULT_CHUNK_SIZE", "ALLOWED_FILE_EXTENSIONS"},
             x \in ConfigValues}

InitConfig ==
    /\ job \in [kind : {"update_config"}, config : ConfigInputs,
                kwargs : KwargsInputs]
    /\ result = NoResult
    /\ AwQuiet
    /\ SrvQuiet
    /\ LockQuiet

CallUpdateConfig ==
    /\ job.kind = "update_config"
    /\ result = NoResult
    /\ result' = [kind |-> "updated"] @@ update_config(job.config, job.kwargs)
    /\ UNCHANGED <<job, awVars, srvVars, lockVars>>

NextConfig == CallUpdateConfig

SpecConfig == InitConfig /\ [][NextConfig]_vars

\* The configuration with the keyword values in place of its own.
WithValues(cfg, kwargs) ==
    [k \in DOMAIN cfg |-> IF k \in DOMAIN kwargs THEN kwargs[k] ELSE cfg[k]]

MaxEntries == 2      \* commits in a mesh-level commits_index.json

IndexJson == <<"commits_index.json">>
IndexBackup == <<"commits_index.json.backup">>

\* A file json.load cannot parse.
Corrupt == [corrupt |-> TRUE]

\* commit.get('branch', 'main')
BranchOf(commit) ==
    IF "branch" \in DOMAIN commit THEN commit.branch ELSE <<"main">>

\* The keys of branch_commits.
BranchesNamed(old_commits) ==
    {BranchOf(old_commits[i]) : i \in 1..Len(old_commits)}

\* branch_commits[branch_name]: the commits of the branch, in index order.
GroupOf(old_commits, branch_name) ==
    LET OfBranch(commit) == BranchOf(commit) = branch_name
    IN  SelectSeq(old_commits, OfBranch)

\* The document written as the branch's commits_index.json.
NewIndexData(old_index_data, commits) ==
    [commits |-> commits,
     last_updated |-> IF "last_updated" \in DOMAIN old_index_data
                      THEN old_index_data.last_updated ELSE <<>>,
     migrated_from |-> "mesh_level"]

\* The loop over branch_commits.items(): a branch without a directory is
\* skipped with a warning, the others get their index written.
RECURSIVE WriteBranchIndexes(_, _, _, _)
WriteBranchIndexes(tree, mesh_name, old_index_data, todo) ==
    IF todo = {} THEN tree
    ELSE LET branch_name == CHOOSE b \in todo : TRUE
             branch_dir_ == <<mesh_name, branch_name>>
             written ==
                 IF ~Exists(tree, branch_dir_) THEN tree
                 ELSE [tree EXCEPT !.files =
                          (Append(branch_dir_, IndexJson) :>
                              NewIndexData(old_index_data,
                                           GroupOf(old_index_data.commits,
                                                   branch_name))) @@ @]
         IN  WriteBranchIndexes(written, mesh_name, old_index_data,
                                todo \ {branch_name})

\* os.rename(old_index_path, old_index_path + '.backup')
BackupOldIndex(tree, mesh_name) ==
    LET old == <<mesh_name, IndexJson>>
    IN  [tree EXCEPT !.files =
            (<<mesh_name, IndexBackup>> :> tree.files[old])
            @@ [f \in DOMAIN tree.files \ {old} |-> tree.files[f]]]

\* The body of the loop over the mesh directories.
MigrateMeshIndex(tree, mesh_name) ==
    IF <<mesh_name, IndexJson>> \notin DOMAIN tree.files THEN tree
    ELSE IF tree.files[<<mesh_name, IndexJson>>] = Corrupt THEN tree
    ELSE BackupOldIndex(
             WriteBranchIndexes(tree, mesh_name,
                                tree.files[<<mesh_name, IndexJson>>],
                                BranchesNamed(tree.files[<<mesh_name, IndexJson>>].commits)),
             mesh_name)

RECURSIVE MigrateMeshes(_, _)
MigrateMeshes(tree, todo) ==
    IF todo = {} THEN tree
    ELSE LET mesh_name == CHOOSE m \in todo : TRUE
         IN  MigrateMeshes(MigrateMeshIndex(tree, mesh_name), todo \ {mesh_name})

migrate_commit_indexes_to_branches(tree) ==
    [fs |-> MigrateMeshes(tree, SubDirs(tree, <<>>)), ret |-> TRUE]

(***************************************************************************)
(* SpecIndex: the migration run once over a repository of the older        *)
(* layout: mesh M with some of the branches main and dev and a mesh-level  *)
(* index, beside a mesh that may have none.                                *)
(***************************************************************************)
\* Index entries: one of main, one of dev, one with no branch attribute.
IndexEntries ==
    {[id |-> "c1", branch |-> <<"main">>], [id |-> "c2", branch |-> <<"dev">>],
     [id |-> "c3"]}

RECURSIVE EntryLists(_)
EntryLists(n) ==
    IF n = 0 THEN {<<>>}
    ELSE LET shorter == EntryLists(n - 1)
         IN  shorter \cup {Append(s, e) : s \in {x \in shorter : Len(x) = n - 1},
                                          e \in IndexEntries}

OldIndexes ==
    {Corrupt} \cup {[commits |-> l, last_updated |-> 1] : l \in EntryLists(MaxEntries)}

IndexTrees ==
    {[dirs |-> {<<<<"M">>>>} \cup {<<<<"M">>, b>> : b \in bs} \cup ms,
      files |-> (<<<<"M">>, IndexJson>> :> old)]
        : bs \in SUBSET {<<"main">>, <<"dev">>},
          ms \in {{}, {<<<<"N">>>>}},
          old \in OldIndexes}

InitIndex ==
    /\ fs \in IndexTrees
    /\ job = [kind |-> "migrate_indexes", base |-> fs]
    /\ result = NoResult
    /\ AwQuiet
    /\ clock = 1
    /\ resp = NoRequest
    /\ LockQuiet

CallMigrateIndexes ==
    /\ job.kind = "migrate_indexes"
    /\ result = NoResult
    /\ \E r \in {migrate_commit_indexes_to_branches(fs)} :
          /\ fs' = r.fs
          /\ result' = [kind |-> "migrated", ret |-> r.ret]
    /\ UNCHANGED <<job, clock, resp, awVars, lockVars>>

NextIndex == CallMigrateIndexes

SpecIndex == InitIndex /\ [][NextIndex]_vars

\* The branches of the mesh whose commits_index.json lists the entry.
IndexesHolding(tree, mesh_name, entry) ==
    {b \in SubDirs(tree, <<mesh_name>>) :
        /\ <<mesh_name, b, IndexJson>> \in DOMAIN tree.files
        /\ \E i \in 1..Len(tree.files[<<mesh_name, b, IndexJson>>].commits) :
              tree.files[<<mesh_name, b, IndexJson>>].commits[i] = entry}

\* C25: after the migration every entry of a mesh's consolidated index is
\* in exactly one per-branch commits_index.json, the one of its branch
\* attribute, and the consolidated file has become commits_index.json.backup.
C25_IndexPartitionedByBranch ==
    (result.kind = "migrated"
        /\ job.base.files[<<<<"M">>, IndexJson>>] # Corrupt) =>
        LET old == job.base.files[<<<<"M">>, IndexJson>>]
        IN  /\ result.ret
            /\ \A i \in 1..Len(old.commits) :
                  IndexesHolding(fs, <<"M">>, old.commits[i])
                      = {BranchOf(old.commits[i])}
            /\ <<<<"M">>, IndexJson>> \notin DOMAIN fs.files
            /\ <<<<"M">>, IndexBackup>> \in DOMAIN fs.files
            /\ fs.files[<<<<"M">>, IndexBackup>>] = old

(***************************************************************************)
(* src/classes/migration.py: migrate_commit_data_format, statement by      *)
(* statement on one commit directory, with a reader of commit.json and a   *)
(* crash of the migrating process at any point. A file that is being       *)
(* written holds the first blocks of the text json.dump produces.          *)
(***************************************************************************)
MaxBlocks == 2       \* buffer flushes the text of one commit.json takes

CurrentVersion == "1.1"
OldestVersion == "1.0"

MigCommitDir == <<<<"M">>, <<"main">>, <<"c1">>>>
MigCommitFile == Append(MigCommitDir, CommitJson)
MigBackupFile == Append(MigCommitDir, <<"commit.json.backup">>)

\* exported_components given to a commit.json that has none.
DefaultComponents ==
    [geometry |-> TRUE, transform |-> TRUE, materials |-> TRUE, uv_layout |-> TRUE]

\* The document the migration writes for data.
UpgradedVersionKept(data) ==
    [exported_components |-> IF "exported_components" \in DOMAIN data
                             THEN data.exported_components
                             ELSE DefaultComponents]
    @@ data
Upgraded(data) ==
    [data_version |-> CurrentVersion,
     exported_components |-> IF "exported_components" \in DOMAIN data
                             THEN data.exported_components
                             ELSE DefaultComponents]
    @@ data

\* The file after open(commit_file, 'w') and the first k of n flushes of
\* the dumped text; after the last flush it holds the whole document.
BeingWritten(doc, k, n) ==
    IF k = n THEN doc ELSE [written |-> k, of |-> n, text |-> doc]

\* commit.json documents of earlier versions and of the current one.
MigOriginals ==
    {[mesh_name |-> <<"M">>],
     [data_version |-> OldestVersion, mesh_name |-> <<"M">>],
     [data_version |-> OldestVersion, mesh_name |-> <<"M">>,
      exported_components |-> [geometry |-> TRUE, transform |-> FALSE,
                               materials |-> FALSE, uv_layout |-> FALSE]],
     [data_version |-> CurrentVersion, mesh_name |-> <<"M">>,
      exported_components |-> DefaultComponents]}

\* Commit directories: commit.json of some version, with or without a
\* backup an earlier run left; or no commit.json.
MigTrees ==
    {[dirs |-> {SubSeq(MigCommitDir, 1, i) : i \in 1..3}, files |-> << >>]}
    \cup {[dirs |-> {SubSeq(MigCommitDir, 1, i) : i \in 1..3},
           files |-> (MigCommitFile :> d) @@ b]
             : d \in MigOriginals,
               b \in {<< >>, (MigBackupFile :> [mesh_name |-> <<"M">>])}}

InitMig ==
    /\ fs \in MigTrees
    /\ job \in {[kind |-> "migrate_commit", pc |-> "exists", base |-> fs,
                 data |-> Null, blocks |-> n, written |-> 0] : n \in 1..MaxBlocks}
    /\ result = NoResult
    /\ AwQuiet
    /\ clock = 1
    /\ resp = NoRequest
    /\ LockQuiet

MigGoto(pc) == job' = [job EXCEPT !.pc = pc]

\* if not os.path.exists(commit_file): return True
MigExists ==
    /\ job.pc = "exists"
    /\ MigGoto(IF MigCommitFile \in DOMAIN fs.files THEN "load" ELSE "returned")
    /\ UNCHANGED <<fs, result, clock, resp, awVars, lockVars>>

\* json.load, and the return when the document is at the current version.
MigLoad ==
    /\ job.pc = "load"
    /\ \E data \in {fs.files[MigCommitFile]} :
          job' = [job EXCEPT
                     !.data = data,
                     !.pc = IF "data_version" \in DOMAIN data
                               /\ data.data_version = CurrentVersion
                            THEN "returned" ELSE "backup"]
    /\ UNCHANGED <<fs, result, clock, resp, awVars, lockVars>>

\* shutil.copy2(commit_file, backup_file) unless the backup exists.
MigBackup ==
    /\ job.pc = "backup"
    /\ fs' = IF MigBackupFile \in DOMAIN fs.files THEN fs
             ELSE [fs EXCEPT !.files = (MigBackupFile :> fs.files[MigCommitFile]) @@ @]
    /\ MigGoto("open")
    /\ UNCHANGED <<result, clock, resp, awVars, lockVars>>

\* open(commit_file, 'w') truncates commit.json in place.
MigOpenWrite ==
    /\ job.pc = "open"
    /\ fs' = [fs EXCEPT !.files[MigCommitFile] =
                 BeingWritten(Upgraded(job.data), 0, job.blocks)]
    /\ job' = [job EXCEPT !.pc = "dump", !.written = 0]
    /\ UNCHANGED <<result, clock, resp, awVars, lockVars>>

\* json.dump(data, f, indent=2) and the close of the file: the buffer
\* reaches the file block by block, the last block at the close.
MigDump ==
    /\ job.pc = "dump"
    /\ job.written < job.blocks
    /\ fs' = [fs EXCEPT !.files[MigCommitFile] =
                 BeingWritten(Upgraded(job.data), job.written + 1, job.blocks)]
    /\ job' = [job EXCEPT !.written = @ + 1,
                          !.pc = IF job.written + 1 = job.blocks
                                 THEN "returned" ELSE "dump"]
    /\ UNCHANGED <<result, clock, resp, awVars, lockVars>>

\* The process is killed (or the machine loses power) mid-call.
MigCrash ==
    /\ job.pc \notin {"returned", "crashed"}
    /\ MigGoto("crashed")
    /\ UNCHANGED <<fs, result, clock, resp, awVars, lockVars>>

\* Another process opens commit.json and reads what it holds now.
MigRead ==
    /\ MigCommitFile \in DOMAIN fs.files
    /\ result' = [kind |-> "read", content |-> fs.files[MigCommitFile]]
    /\ UNCHANGED <<fs, job, clock, resp, awVars, lockVars>>

NextMig ==
    \/ MigExists \/ MigLoad \/ MigBackup \/ MigOpenWrite \/ MigDump
    \/ MigCrash \/ MigRead

SpecMig == InitMig /\ [][NextMig]_vars

\* C26: at every step of the upgrade, and after a crash at any step,
\* commit.json holds the complete original document or the complete
\* upgraded one, and that is what a reader gets.
C26_UpgradeIsAtomic ==
    (MigCommitFile \in DOMAIN job.base.files) =>
        LET original == job.base.files[MigCommitFile]
        IN  /\ fs.files[MigCommitFile] \in {original, Upgraded(original)}
            /\ result.kind = "read" =>
                  result.content \in {original, Upgraded(original)}

(***************************************************************************)
(* SpecFrame: one write request addressed to mesh M, handled as a whole,   *)
(* on a repository that also holds mesh N (a branch, a commit and a        *)
(* pointer). The branch and commit names of the request include "." and    *)
(* "..", which sanitize_name lets through.                                 *)
(***************************************************************************)
\* Mesh N as earlier requests left it.
FrameTreeN ==
    set_correct(create_commit(EmptyTree, <<"N">>, <<"main">>, 1, TmpNames[1]).fs,
                <<"N">>, <<"main">>, TmpNames[1]).fs
FrameTrees ==
    {FrameTreeN,
     create_branch(FrameTreeN, <<"M">>, <<"main">>, TmpNames[1]).fs,
     create_commit(FrameTreeN, <<"M">>, <<"main">>, 1, TmpNames[1]).fs,
     set_correct(create_commit(FrameTreeN, <<"M">>, <<"main">>, 1, TmpNames[1]).fs,
                 <<"M">>, <<"main">>, TmpNames[1]).fs}

FrameBranches == {<<"main">>, <<"dev">>, Dot, DotDot}
FrameCommits == {<<"c1">>, <<"N">>, <<"main">>}

FrameJobs ==
    {[kind |-> "request", op |-> op, mesh |-> <<"M">>, branch |-> b,
      commit |-> Null] : op \in ConcOps \ {"delete_commit"}, b \in FrameBranches}
    \cup {[kind |-> "request", op |-> "delete_commit", mesh |-> <<"M">>,
           branch |-> b, commit |-> c] : b \in FrameBranches, c \in FrameCommits}

InitFrame ==
    /\ fs \in FrameTrees
    /\ \E j \in FrameJobs : job = [base |-> fs] @@ j
    /\ result = NoResult
    /\ AwQuiet
    /\ clock = 1
    /\ resp = NoRequest
    /\ LockQuiet

\* The handler of the request, applied to the tree.
Handle(tree, j, now, tmp) ==
    IF j.op = "set_correct" THEN set_correct(tree, j.mesh, j.branch, tmp)
    ELSE IF j.op = "create_branch" THEN create_branch(tree, j.mesh, j.branch, tmp)
    ELSE IF j.op = "delete_branch" THEN delete_branch(tree, j.mesh, j.branch, tmp)
    ELSE IF j.op = "create_commit" THEN create_commit(tree, j.mesh, j.branch, now, tmp)
    ELSE delete_commit(tree, j.mesh, j.branch, j.commit, tmp)

FrameRequest ==
    /\ job.kind = "request"
    /\ result = NoResult
    /\ \E r \in {Handle(fs, job, clock, TmpNames[1])} :
          /\ fs' = r.fs
          /\ result' = [kind |-> "response", status |-> r.status]
    /\ UNCHANGED <<job, clock, resp, awVars, lockVars>>

NextFrame == FrameRequest

SpecFrame == InitFrame /\ [][NextFrame]_vars

\* What the tree holds outside the directory of the mesh and the root
\* forest.json.
OutsideMesh(tree, mesh) ==
    [dirs |-> {d \in tree.dirs : d # mesh_dir(mesh) /\ ~IsUnder(d, mesh_dir(mesh))},
     files |-> [f \in {x \in DOMAIN tree.files :
                          x # forest_path /\ ~IsUnder(x, mesh_dir(mesh))}
                   |-> tree.files[f]]]

\* C31: a mutating request addressed to mesh M, whatever branch and commit
\* names it carries, leaves everything outside M's directory and the root
\* forest.json as it was; in particular the subtree of mesh N.
C31_RequestStaysInItsMesh ==
    result.kind = "response" =>
        OutsideMesh(fs, job.mesh) = OutsideMesh(job.base, job.mesh)

(***************************************************************************)
(* SpecCross: the handlers of SpecConc, thread 1 with a request for mesh   *)
(* N and thread 2 with a request for mesh M whose branch name may be "..". *)
(***************************************************************************)
CrossBranches == {<<"main">>, <<"dev">>, DotDot}

InitCross ==
    /\ job = [kind |-> "none"]
    /\ result = NoResult
    /\ AwQuiet
    /\ clock = 1
    /\ resp = NoRequest
    /\ fs \in ConcTrees
    /\ th \in {[t \in Threads |-> IF t = 1 THEN a ELSE b] :
                  a \in {Arrived(fs, op, <<"N">>, <<"main">>) : op \in ConcOps},
                  b \in {Arrived(fs, op, <<"M">>, br) :
                            op \in ConcOps, br \in CrossBranches}}
    /\ locks = << >>
    /\ held = {}

SpecCross == InitCross /\ [][NextConc]_vars

\* The tree shows what the answered request of the thread did.
EffectInTree(tree, t) ==
    IF th[t].op = "set_correct"
    THEN Pointer(tree, th[t].mesh) = th[t].branch
    ELSE IF th[t].op = "create_branch"
    THEN IsDir(tree, branch_dir(th[t].mesh, th[t].branch))
    ELSE IF th[t].op = "delete_branch"
    THEN ~IsDir(tree, branch_dir(th[t].mesh, th[t].branch))
    ELSE IF th[t].op = "create_commit"
    THEN Exists(tree, Append(commit_dir(th[t].mesh, th[t].branch, MintCommitId(1)),
                             CommitJson))
    ELSE ~IsDir(tree, commit_dir(th[t].mesh, th[t].branch, MintCommitId(1)))

\* C32: once two concurrent mutating requests addressed to different
\* meshes have both been answered, the tree holds the effect of each one
\* that succeeded: the other request has not undone it.
C32_BothMutationsInTree ==
    (/\ \A t \in Threads : th[t].pc = "done"
     /\ th[1].mesh # th[2].mesh)
        => \A t \in Threads : th[t].status = Ok => EffectInTree(fs, t)


(***************************************************************************)
(* The four-step reference of the sanitiser contract, against which        *)
(* sanitize_name is compared in SpecSan.                                   *)
(***************************************************************************)
\* Step 2 of the reference: every maximal run of spaces becomes one
\* underscore.
RECURSIVE CollapseSpaceRuns(_)
CollapseSpaceRuns(s) ==
    IF s = <<>> THEN <<>>
    ELSE IF Head(s) # " " THEN <<Head(s)>> \o CollapseSpaceRuns(Tail(s))
    ELSE IF Len(s) > 1 /\ s[2] = " " THEN CollapseSpaceRuns(Tail(s))
    ELSE <<"_">> \o CollapseSpaceRuns(Tail(s))

ReferenceSanitize(name) ==
    LET n1 == CollapseSpaceRuns(Strip(name))
        n2 == SelectSeq(n1, IsSafe)
    IN  IF n2 = <<>> THEN Untitled ELSE n2

\* C33: on every input string sanitize_name returns what the four-step
\* reference returns: trim, one underscore per run of spaces, delete the
\* characters outside [A-Za-z0-9._-], "untitled" when nothing is left.
C33_AgreesWithReference ==
    result.kind = "name" => result.name = ReferenceSanitize(job.name)

\* The same comparison on the inputs that hold no two adjacent spaces.
C33_AgreesWithoutSpaceRuns ==
    (/\ result.kind = "name"
     /\ \A i \in 1..(Len(job.name) - 1) : ~(job.name[i] = " " /\ job.name[i + 1] = " "))
        => result.name = ReferenceSanitize(job.name)


\* C39: in every state reached through API requests, the root forest.json
\* and the correct.json of every mesh are not directories.
C39_ReservedPathsAreNotDirectories ==
    /\ ~IsDir(fs, forest_path)
    /\ \A m \in list_meshes(fs) : ~IsDir(fs, correct_path(m))


\* The Governed state of a mesh: correct.json names one of the branch
\* directories of the mesh.
Governed(tree, mesh) ==
    /\ Pointer(tree, mesh) # Null
    /\ Pointer(tree, mesh) \in list_branches(tree, sanitize_name(mesh))

\* C38: once a set correct on a mesh has succeeded, every later request
\* leaves the mesh with a correct.json that names one of its existing
\* branches (so the mesh keeps at least one branch).
C38_GovernedIsNeverLeft ==
    [][\A m \in MeshInputs :
          (\/ Governed(fs, m)
           \/ \E b \in BranchInputs : SetCorrect(m, b) /\ resp'.status = Ok)
              => Governed(fs', m)]_vars


\* C40: when update_config returns False every field of the configuration
\* has the value it had before the call, and a configuration that passed
\* validate before the call passes it after the call.
C40_FailedUpdateChangesNothing ==
    result.kind = "updated" =>
        /\ ~result.ret => result.config = job.config
        /\ validate(job.config) = "True" => validate(result.config) = "True"


(***************************************************************************)
(* src/classes/migration.py: _migration_cache and check_migration_needed.  *)
(* The cache is the module-level dict, kept in job.cache: a function from  *)
(* base directories to booleans, empty at import.                          *)
(***************************************************************************)
BaseDir == "base_dir"

\* The loop of check_migration_needed: some mesh directory holds a
\* mesh-level commits_index.json.
OldIndexFound(tree) ==
    \E mesh_name \in SubDirs(tree, <<>>) :
        <<mesh_name, IndexJson>> \in DOMAIN tree.files

\* check_migration_needed: a cached answer is returned without looking at
\* the tree; otherwise the tree is scanned and the answer cached.
check_migration_needed(tree, cache) ==
    IF BaseDir \in DOMAIN cache
    THEN [cache |-> cache, ret |-> cache[BaseDir]]
    ELSE [cache |-> (BaseDir :> OldIndexFound(tree)) @@ cache,
          ret |-> OldIndexFound(tree)]

(***************************************************************************)
(* SpecCache: checks and migrations in any order on a repository of the    *)
(* older layout, to which an older version of the add-on may write a       *)
(* mesh-level index again.                                                 *)
(***************************************************************************)
InitCache ==
    /\ fs \in IndexTrees
    /\ job = [kind |-> "migration_cache", cache |-> << >>]
    /\ result = NoResult
    /\ AwQuiet
    /\ clock = 1
    /\ resp = NoRequest
    /\ LockQuiet

CacheCheck ==
    /\ job.kind = "migration_cache"
    /\ \E r \in {check_migration_needed(fs, job.cache)} :
          /\ job' = [job EXCEPT !.cache = r.cache]
          /\ result' = [kind |-> "checked", ret |-> r.ret]
    /\ UNCHANGED <<fs, clock, resp, awVars, lockVars>>

\* migrate_commit_indexes_to_branches, with its last statement before
\* `return True`: _migration_cache[base_dir] = False.
CacheMigrate ==
    /\ job.kind = "migration_cache"
    /\ \E r \in {migrate_commit_indexes_to_branches(fs)} :
          /\ fs' = r.fs
          /\ job' = [job EXCEPT !.cache =
                        IF r.ret THEN (BaseDir :> FALSE) @@ @ ELSE @]
          /\ result' = [kind |-> "migrated", ret |-> r.ret]
    /\ UNCHANGED <<clock, resp, awVars, lockVars>>

\* The tree changes outside the migration: a mesh-level commits_index.json
\* is written into a mesh directory that has none.
CacheOldIndexWritten(mesh_name, old) ==
    /\ job.kind = "migration_cache"
    /\ <<mesh_name>> \in fs.dirs
    /\ <<mesh_name, IndexJson>> \notin DOMAIN fs.files
    /\ fs' = [fs EXCEPT !.files = (<<mesh_name, IndexJson>> :> old) @@ @]
    /\ result' = [kind |-> "tree_changed"]
    /\ UNCHANGED <<job, clock, resp, awVars, lockVars>>

\* What is written: an unreadable index and a readable one.
WrittenIndexes ==
    {Corrupt, [commits |-> <<[id |-> "c1", branch |-> <<"main">>]>>, last_updated |-> 1]}

NextCache ==
    \/ CacheCheck
    \/ CacheMigrate
    \/ \E m \in {<<"M">>, <<"N">>}, old \in WrittenIndexes :
          CacheOldIndexWritten(m, old)

SpecCache == InitCache /\ [][NextCache]_vars

\* C34: whatever the cache records for the base directory is whether a
\* mesh directory still holds a mesh-level commits_index.json, and
\* check_migration_needed returns True exactly in that case.
C34_CacheTracksOldIndexes ==
    /\ BaseDir \in DOMAIN job.cache => job.cache[BaseDir] = OldIndexFound(fs)
    /\ result.kind = "checked" => result.ret = OldIndexFound(fs)


(***************************************************************************)
(* SpecRemig: migrate_commit_data_format called again and again on one     *)
(* commit directory, every call running to its return.                     *)
(***************************************************************************)
MaxRuns == 3         \* calls of migrate_commit_data_format on the directory

\* Commit directories before the first call: commit.json of some version
\* and no backup, or the backup an interrupted call copied; or no
\* commit.json.
RemigTrees ==
    {[dirs |-> {SubSeq(MigCommitDir, 1, i) : i \in 1..3}, files |-> << >>]}
    \cup {[dirs |-> {SubSeq(MigCommitDir, 1, i) : i \in 1..3},
           files |-> (MigCommitFile :> d) @@ b]
             : d \in MigOriginals, b \in {<< >>}}
    \cup {[dirs |-> {SubSeq(MigCommitDir, 1, i) : i \in 1..3},
           files |-> (MigCommitFile :> d) @@ (MigBackupFile :> d)]
             : d \in {o \in MigOriginals : "data_version" \notin DOMAIN o
                                        \/ o.data_version # CurrentVersion}}

\* job.runs counts the calls that have returned.
InitRemig ==
    /\ fs \in RemigTrees
    /\ job \in {[kind |-> "migrate_commit", pc |-> "exists", base |-> fs,
                 data |-> Null, blocks |-> n, written |-> 0, runs |-> 0]
                   : n \in 1..MaxBlocks}
    /\ result = NoResult
    /\ AwQuiet
    /\ clock = 1
    /\ resp = NoRequest
    /\ LockQuiet

\* The next call on the same directory.
MigRunAgain ==
    /\ job.pc = "returned"
    /\ job.runs + 1 < MaxRuns
    /\ job' = [job EXCEPT !.pc = "exists", !.runs = @ + 1, !.data = Null,
                          !.written = 0]
    /\ UNCHANGED <<fs, result, clock, resp, awVars, lockVars>>

NextRemig ==
    \/ MigExists \/ MigLoad \/ MigBackup \/ MigOpenWrite \/ MigDump
    \/ MigRunAgain

SpecRemig == InitRemig /\ [][NextRemig]_vars

\* The commit.json the first call found, and whether it was of an older
\* version.
RemigOriginal == job.base.files[MigCommitFile]
StartedOlder ==
    /\ MigCommitFile \in DOMAIN job.base.files
    /\ ~("data_version" \in DOMAIN RemigOriginal
         /\ RemigOriginal.data_version = CurrentVersion)

\* C35: on a commit.json that started at an older version, after every
\* call that returned, commit.json.backup holds the original document,
\* commit.json has the current data_version and every key of the original
\* with its value (data_version aside); and no step of a call after the
\* first changes any file.
C35_RerunKeepsBackupAndUpgrade ==
    [][StartedOlder =>
          /\ job'.pc = "returned" =>
                /\ MigBackupFile \in DOMAIN fs'.files
                /\ fs'.files[MigBackupFile] = RemigOriginal
                /\ fs'.files[MigCommitFile].data_version = CurrentVersion
                /\ \A k \in DOMAIN RemigOriginal \ {"data_version"} :
                      /\ k \in DOMAIN fs'.files[MigCommitFile]
                      /\ fs'.files[MigCommitFile][k] = RemigOriginal[k]
          /\ job.runs >= 1 => fs' = fs]_vars

\* The second call has returned on a directory whose commit.json started
\* without a data_version: the backup holds that document and commit.json
\* the upgraded one.
C35_Witness ==
    /\ job.kind = "migrate_commit"
    /\ "runs" \in DOMAIN job
    /\ job.runs >= 1
    /\ job.pc = "returned"
    /\ StartedOlder
    /\ "data_version" \notin DOMAIN RemigOriginal
    /\ MigBackupFile \notin DOMAIN job.base.files
    /\ fs.files[MigBackupFile] = RemigOriginal
    /\ fs.files[MigCommitFile] = Upgraded(RemigOriginal)


(***************************************************************************)
(* SpecLive: the handlers of SpecFault with the worker threads scheduled   *)
(* fairly: a thread                                                        *)
(* of the server's pool that can take its next step is not left waiting    *)
(* for ever by the operating system. The arrival of a request is up to the *)
(* clients and is not forced.                                              *)
(***************************************************************************)
\* The next statement of the handler thread t runs.
HandlerStep(t) ==
    \/ GetLockCheck(t)
    \/ GetLockSet(t)
    \/ GetLockReturn(t)
    \/ Acquire(t)
    \/ SetCorrectBody(t)
    \/ CreateBranchBody(t)
    \/ DeleteBranchCheck(t)
    \/ DeleteBranchRemove(t)
    \/ CreateCommitBody(t)
    \/ DeleteCommitBody(t)
    \/ BuildForest(t)
    \/ WriteForestBegin(t)
    \/ WriteForestEnd(t)
    \/ WriteForestFault(t)
    \/ Release(t)
    \/ Respond(t)

\* The requests of SpecLive name one mesh, whose branch main is the
\* correct one and has a commit; dev does not exist at the start.
LiveRequests ==
    {ArrivedAfter(Tree3, op, <<"M">>, b, {}) : op \in ConcOps, b \in ConcBranches}

InitLive ==
    /\ job = [kind |-> "none"]
    /\ result = NoResult
    /\ AwQuiet
    /\ clock = 1
    /\ resp = NoRequest
    /\ fs = Tree3
    /\ th \in {[t \in Threads |-> IF t = 1 THEN a ELSE IdleThread] :
                  a \in LiveRequests}
    /\ locks = << >>
    /\ held = {}

\* A worker thread takes a later request for the mesh, at any moment: a
\* create commit on main or a set correct to dev.
LaterRequests == {<<"create_commit", <<"main">>>>, <<"set_correct", <<"dev">>>>}

ArriveLive(t) ==
    /\ th[t].pc = "idle"
    /\ \E x \in LaterRequests :
          th' = [th EXCEPT ![t] =
                    ArrivedAfter(fs, x[1], <<"M">>, x[2],
                                 {u \in Threads : th[u].pc = "done"})]
    /\ UNCHANGED <<locks, held, sanVars, awVars, srvVars>>

NextLive == \E t \in Threads : HandlerStep(t) \/ ArriveLive(t)

SpecLive ==
    /\ InitLive
    /\ [][NextLive]_vars
    /\ \A t \in Threads : WF_vars(HandlerStep(t))

\* The thread is inside its with block.
InWithBlock(t) ==
    th[t].pc \in {"body", "remove", "build", "wf_begin", "wf_end", "release"}

\* C37: a Lock is held only by a thread that is inside its with block (so
\* none is held once its request has been answered, whatever the status),
\* and a request that waits for the Lock of its mesh gets it.
C37_MutexReleasedOnEveryExit ==
    /\ [](\A l \in held : \E t \in Threads : InWithBlock(t) /\ th[t].lock = l)
    /\ \A t \in Threads : (th[t].pc = "acquire") ~> InWithBlock(t)

\* The first request was answered with an error (404, 409 or 500) and a
\* later request for the same mesh, using the same Lock, is inside its
\* with block.
C37_Witness ==
    /\ th[1].pc = "done"
    /\ th[1].status \in {NotFound, Conflict, ServerError}
    /\ th[2].pc = "body"
    /\ 1 \in th[2].after
    /\ th[2].mesh = th[1].mesh
    /\ th[2].lock = th[1].lock


(***************************************************************************)
(* src/classes/version_manager.py: get_object_history and                  *)
(* compress_old_versions. base_dir is the root of the tree; the archive of *)
(* a commit directory is the file <commit>.zip beside it.                  *)
(***************************************************************************)
MaxKeep == 2         \* largest keep_versions given to compress_old_versions

\* commit_path + '.zip'
ZipPath(commit_path) ==
    Append(Parent(commit_path), Last(commit_path) \o <<".zip">>)

\* The files os.walk(commit_path) finds.
FilesUnder(tree, commit_path) ==
    {f \in DOMAIN tree.files : IsUnder(f, commit_path)}

\* The entries of get_object_history: every commit.json, two levels below
\* the mesh directory, that has a timestamp.
HistoryEntries(tree, mesh_dir_) ==
    {[commit_path |-> c, timestamp |-> tree.files[Append(c, CommitJson)].timestamp]
        : c \in {d \in tree.dirs :
                    /\ Len(d) = Len(mesh_dir_) + 2
                    /\ IsUnder(d, mesh_dir_)
                    /\ Append(d, CommitJson) \in DOMAIN tree.files
                    /\ "timestamp" \in DOMAIN tree.files[Append(d, CommitJson)]}}

\* The sequences that list every element of S once.
RECURSIVE Orderings(_)
Orderings(S) ==
    IF S = {} THEN {<<>>}
    ELSE UNION {{<<e>> \o s : s \in Orderings(S \ {e})} : e \in S}

\* get_object_history: the entries sorted by timestamp, newest first. The
\* order of equal timestamps is the order os.listdir gave, which may be any.
get_object_history(tree, mesh_name) ==
    Only({IF safe.raised \/ ~Exists(tree, <<safe.value>>) THEN {<<>>}
          ELSE {h \in Orderings(HistoryEntries(tree, <<safe.value>>)) :
                   \A i \in 1..(Len(h) - 1) : h[i].timestamp >= h[i + 1].timestamp}
          : safe \in {sanitize_path_component(mesh_name)}})

\* A ZipFile on disk: opened for writing, then with the files added so
\* far, then closed (complete); bad: a member whose data does not match
\* its checksum.
ZipFile(commit_path, members, complete, bad) ==
    [zip_of |-> commit_path, members |-> members, complete |-> complete,
     bad |-> bad]

\* zipf.testzip(): the first bad member, None when there is none.
testzipSkipped(zip) == FALSE
testzip(zip) == zip.bad

(***************************************************************************)
(* SpecZip: one call of compress_old_versions("M", keep_versions),         *)
(* statement by statement, on a mesh with commits on two branches, where   *)
(* writing the archive may fail and the written archive may be corrupt.    *)
(***************************************************************************)
ZipMesh == <<"M">>
ZipC1 == <<ZipMesh, <<"main">>, <<"c1">>>>
ZipC2 == <<ZipMesh, <<"main">>, <<"c2">>>>
ZipC3 == <<ZipMesh, <<"dev">>, <<"c3">>>>
ZipC4 == <<ZipMesh, <<"dev">>, <<"c4">>>>
ZipCommits == {ZipC1, ZipC2, ZipC3, ZipC4}

\* c1 is the oldest and holds a data file beside commit.json; c3 is as new
\* as c2 or newer; c4, when there, has a commit.json without timestamp;
\* c1.zip may be left from an earlier call.
ZipTrees ==
    {[dirs |-> {<<ZipMesh>>, <<ZipMesh, <<"main">>>>, <<ZipMesh, <<"dev">>>>,
                ZipC1, ZipC2, ZipC3} \cup extra,
      files |-> (Append(ZipC1, CommitJson) :> [timestamp |-> 1])
                @@ (Append(ZipC1, <<"mesh.data">>) :> [data |-> 1])
                @@ (Append(ZipC2, CommitJson) :> [timestamp |-> 2])
                @@ (Append(ZipC3, CommitJson) :> [timestamp |-> t3])
                @@ [f \in {Append(c, CommitJson) : c \in extra} |-> [message |-> 1]]
                @@ old]
        : t3 \in {2, 3}, extra \in {{}, {ZipC4}},
          old \in {<< >>, (ZipPath(ZipC1) :> ZipFile(ZipC1, {}, FALSE, FALSE))}}

InitZip ==
    /\ fs \in ZipTrees
    /\ job \in {[kind |-> "compress", pc |-> "history", base |-> fs,
                 keep_versions |-> k, history |-> <<>>, i |-> 0]
                   : k \in 0..MaxKeep}
    /\ result = NoResult
    /\ AwQuiet
    /\ clock = 1
    /\ resp = NoRequest
    /\ LockQuiet

\* The commit of the current turn of the loop.
ZipCurrent == job.history[job.i].commit_path

\* history = get_object_history(mesh_name) and the early return.
ZipHistory ==
    /\ job.kind = "compress" /\ job.pc = "history"
    /\ \E h \in get_object_history(fs, ZipMesh) :
          job' = [job EXCEPT
                     !.history = h,
                     !.i = job.keep_versions + 1,
                     !.pc = IF Len(h) <= job.keep_versions
                            THEN "returned" ELSE "next"]
    /\ UNCHANGED <<fs, result, clock, resp, awVars, lockVars>>

\* for commit in history[keep_versions:], up to the try: a commit whose
\* zip exists or whose directory is gone is passed over. (The two path
\* checks before always pass: commit_path is a string joined under
\* base_dir.)
ZipNext ==
    /\ job.kind = "compress" /\ job.pc = "next"
    /\ job' = IF job.i > Len(job.history) THEN [job EXCEPT !.pc = "returned"]
              ELSE IF Exists(fs, ZipPath(ZipCurrent)) \/ ~IsDir(fs, ZipCurrent)
                   THEN [job EXCEPT !.i = @ + 1]
                   ELSE [job EXCEPT !.pc = "open"]
    /\ UNCHANGED <<fs, result, clock, resp, awVars, lockVars>>

\* zipfile.ZipFile(zip_path, 'w', ...) creates the file.
ZipOpen ==
    /\ job.kind = "compress" /\ job.pc = "open"
    /\ fs' = [fs EXCEPT !.files =
                 (ZipPath(ZipCurrent) :> ZipFile(ZipCurrent, {}, FALSE, FALSE)) @@ @]
    /\ job' = [job EXCEPT !.pc = "write"]
    /\ UNCHANGED <<result, clock, resp, awVars, lockVars>>

\* zipf.write(file_path, arcname) for the next file of the walk; after the
\* last one the with block closes the archive. What reaches the disk may
\* be damaged.
ZipWrite ==
    /\ job.kind = "compress" /\ job.pc = "write"
    /\ \E zip \in {fs.files[ZipPath(ZipCurrent)]} :
       \E todo \in {FilesUnder(fs, ZipCurrent) \ zip.members} :
          IF todo # {}
          THEN /\ \E f \in todo :
                     fs' = [fs EXCEPT !.files[ZipPath(ZipCurrent)].members =
                                         @ \cup {f}]
               /\ UNCHANGED job
          ELSE /\ \E bad \in BOOLEAN :
                     fs' = [fs EXCEPT !.files[ZipPath(ZipCurrent)] =
                               ZipFile(ZipCurrent, zip.members, TRUE, bad)]
               /\ job' = [job EXCEPT !.pc = "validate"]
    /\ UNCHANGED <<result, clock, resp, awVars, lockVars>>

\* Creating or writing the archive raises (disk full, a file that cannot
\* be read, no permission): control goes to the except clause.
ZipWriteFault ==
    /\ job.kind = "compress" /\ job.pc \in {"open", "write"}
    /\ job' = [job EXCEPT !.pc = "except"]
    /\ UNCHANGED <<fs, result, clock, resp, awVars, lockVars>>

\* testzip on the reopened archive; a bad member raises BadZipFile.
ZipValidate ==
    /\ job.kind = "compress" /\ job.pc = "validate"
    /\ job' = [job EXCEPT !.pc = IF testzip(fs.files[ZipPath(ZipCurrent)])
                                 THEN "except" ELSE "rmtree"]
    /\ UNCHANGED <<fs, result, clock, resp, awVars, lockVars>>

\* shutil.rmtree(commit_path)
ZipRemoveOriginal ==
    /\ job.kind = "compress" /\ job.pc = "rmtree"
    /\ fs' = RmTree(fs, ZipCurrent).fs
    /\ job' = [job EXCEPT !.pc = "next", !.i = @ + 1]
    /\ UNCHANGED <<result, clock, resp, awVars, lockVars>>

\* except Exception: the zip is removed if it exists, and the loop goes on.
ZipExcept ==
    /\ job.kind = "compress" /\ job.pc = "except"
    /\ fs' = IF ZipPath(ZipCurrent) \in DOMAIN fs.files
             THEN [fs EXCEPT !.files =
                      [f \in DOMAIN fs.files \ {ZipPath(ZipCurrent)} |-> fs.files[f]]]
             ELSE fs
    /\ job' = [job EXCEPT !.pc = "next", !.i = @ + 1]
    /\ UNCHANGED <<result, clock, resp, awVars, lockVars>>

NextZip ==
    \/ ZipHistory \/ ZipNext \/ ZipOpen \/ ZipWrite \/ ZipWriteFault
    \/ ZipValidate \/ ZipRemoveOriginal \/ ZipExcept

SpecZip == InitZip /\ [][NextZip]_vars

\* The commits with a timestamp when the call began, and those of them
\* that have fewer than keep_versions others at least as new: the
\* keep_versions newest under every order of equal timestamps.
ZipDated == {e.commit_path : e \in HistoryEntries(job.base, <<ZipMesh>>)}
ZipTimestamp(c) == job.base.files[Append(c, CommitJson)].timestamp
ZipNewest ==
    {c \in ZipDated :
        Cardinality({d \in ZipDated \ {c} : ZipTimestamp(d) >= ZipTimestamp(c)})
            < job.keep_versions}

\* The archive of the commit is complete: closed, with every file of the
\* directory as a member, and no bad member.
ZipValid(tree, c) ==
    /\ ZipPath(c) \in DOMAIN tree.files
    /\ tree.files[ZipPath(c)].complete
    /\ ~tree.files[ZipPath(c)].bad
    /\ tree.files[ZipPath(c)].members = FilesUnder(tree, c)

====
